---- MODULE Spec2Model ----
(***************************************************************************)
(* A model of src/main.py: the job-application orchestrator                *)
(* apply_to_job_async (one run, from the request to the returned result)   *)
(* and the heuristic outcome detector detect_success.                      *)
(*                                                                         *)
(* The browser, the page, the solving service and the vision model are the *)
(* environment: every call on them is a nondeterministic choice among the  *)
(* outcomes the call can have (a value, or an exception where the source   *)
(* lets one propagate).                                                    *)
(***************************************************************************)
EXTENDS Integers, Sequences, FiniteSets, TLC

VARIABLES
    request,        \* the dict handed to apply_to_job_async, as received
    user_data,      \* the same dict while the run works on it (setdefault merges)
    pc,             \* position of the run inside apply_to_job_async
    use_brightdata, \* local use_brightdata
    browser,        \* what the local `browser` refers to: "none", "remote", "local"
    sessions,       \* browser sessions the run opened and still holds
    attempt,        \* index of the remote connection attempt (for attempt in range(3))
    nav_idx,        \* index into ["commit", "domcontentloaded", "load"]
    clicked,        \* local clicked of navigate_next_steps (wizard hops of this call)
    retry_count,    \* local retry_count
    captcha_attempt,\* local captcha_attempt
    ok,             \* local ok
    status,         \* local status
    app_state,      \* ApplicationState
    screenshot_b64, \* TRUE when local screenshot_b64 is a non-empty string
    basic_success,  \* local basic_success
    vision_result,  \* local vision_result
    result,         \* the dict returned by apply_to_job_async (empty until it returns)
    trace,          \* history of the run: what was called, how often
    d_pc, d_html, d_behaviour, d_new, d_ret,  \* one call of detect_success on its own
    r_pc, r_type, r_attempt, r_ret, r_slept,  \* calls of SmartRetrySystem.should_retry
    r_refused,      \* smallest attempt number should_retry refused so far (-1: none)
    i_pc, i_instructions, i_next, executed_count, i_ret,
                    \* one call of execute_vision_instructions on its own
    i_page_failed,  \* a page operation of that call failed
    u_pc, u_pdf_bytes, u_uploaded,  \* two concurrent calls of upload_resume, per run
    tmp_file,       \* content of the file /tmp/_resume.pdf
    a_pc, a_options, a_start, a_value,
                    \* a page with one required <select>: its options, the value
                    \* it held when the page was loaded and the value it holds
    current, a_next, fixed,  \* locals of autofix_required_fields on that page
    problems,       \* what check_required_errors returned afterwards
    t_pc, t_env,    \* one call of solve_captcha_brightdata on its own: what the tiers do
    tried, t_ret,   \* the tiers that call tried, in order, and the value it returned
    f_pc, f_i,      \* the filling phase on its own: the block it is at
    f_name, f_present,  \* user_data: the full name, the other fields with a value
    filled_fields,  \* app_state.filled_fields
    f_issues,       \* app_state.encountered_issues
    f_ok,           \* fields for which a fill or upload operation returned success
    f_again,        \* fields for which a strategy was tried after one had succeeded
    f_failed,       \* fields with a value for which every strategy failed
    p_pc,           \* one call of detect_application_platform on its own
    p_url, p_html,  \* the platform domains in page.url, the markers in the page content
    p_raises,       \* page.content() raises
    p_ret,          \* the dict the call returned
    rd_pc, radios,  \* the radio sweep of autofix_required_fields: the required radios
    rd_start, rd_checked,  \* the radios checked when the sweep starts, and now
    rd_i, seen,     \* locals i and seen of the sweep
    rd_fixed,       \* the radios the sweep checked and counted in fixed
    s_pc, s_page,   \* the five sweeps of autofix_required_fields: the sweep it is in
                    \* (0: not called, 6: returned), the required controls of the page
    s_i,            \* the control the sweep is at (0: the sweep is starting)
    s_reached,      \* the controls a sweep began to operate on
    s_attempted,    \* the controls on which a sweep called a fix
    s_uncounted,    \* a count() of a sweep raised
    v_pc, v_key,    \* one call of analyze_screenshot_with_vision on its own: its
                    \* position, whether it was given a credential
    v_response,     \* what the vision model answers in the call
    v_ret,          \* the verdict returned
    v_raised,       \* the call raised instead of returning
    e_pc,           \* concurrent calls of solve_captcha: the statement each is at
    e_thread        \* the call the event-loop thread is executing (0: none, the
                    \* loop is free to resume any suspended call)

vars == <<request, user_data, pc, use_brightdata, browser, sessions, attempt, nav_idx, clicked,
          retry_count, captcha_attempt, ok, status, app_state, screenshot_b64,
          basic_success, vision_result, result, trace,
          d_pc, d_html, d_behaviour, d_new, d_ret,
          r_pc, r_type, r_attempt, r_ret, r_slept, r_refused,
          i_pc, i_instructions, i_next, executed_count, i_ret, i_page_failed,
          u_pc, u_pdf_bytes, u_uploaded, tmp_file,
          a_pc, a_options, a_start, a_value, current, a_next, fixed, problems,
          t_pc, t_env, tried, t_ret,
          f_pc, f_i, f_name, f_present, filled_fields, f_issues, f_ok, f_again, f_failed,
          p_pc, p_url, p_html, p_raises, p_ret,
          rd_pc, radios, rd_start, rd_checked, rd_i, seen, rd_fixed,
          s_pc, s_page, s_i, s_reached, s_attempted, s_uncounted,
          v_pc, v_key, v_response, v_ret, v_raised,
          e_pc, e_thread>>

runVars == <<request, user_data, pc, use_brightdata, browser, sessions, attempt, nav_idx, clicked,
             retry_count, captcha_attempt, ok, status, app_state, screenshot_b64,
             basic_success, vision_result, result, trace>>

detVars == <<d_pc, d_html, d_behaviour, d_new, d_ret>>

retryVars == <<r_pc, r_type, r_attempt, r_ret, r_slept, r_refused>>

interpVars == <<i_pc, i_instructions, i_next, executed_count, i_ret, i_page_failed>>

uploadVars == <<u_pc, u_pdf_bytes, u_uploaded, tmp_file>>

\* the required <select> of a page and the locals of autofix_required_fields and
\* check_required_errors called on it
fixVars == <<a_pc, a_options, a_start, a_value, current, a_next, fixed, problems>>

\* one call of solve_captcha_brightdata with the tiers as steps
tierVars == <<t_pc, t_env, tried, t_ret>>

\* the filling phase of lines 1759-1830 with the fields as steps
fillVars == <<f_pc, f_i, f_name, f_present, filled_fields, f_issues, f_ok, f_again, f_failed>>

\* one call of detect_application_platform
platVars == <<p_pc, p_url, p_html, p_raises, p_ret>>

\* the radio sweep of lines 608-625
radioVars == <<rd_pc, radios, rd_start, rd_checked, rd_i, seen, rd_fixed>>

\* the sweeps of lines 545-658 with the controls as steps
sweepVars == <<s_pc, s_page, s_i, s_reached, s_attempted, s_uncounted>>

\* one call of analyze_screenshot_with_vision (lines 979-1116)
visionVars == <<v_pc, v_key, v_response, v_ret, v_raised>>

\* concurrent calls of solve_captcha (lines 777-970) on one event loop
loopVars == <<e_pc, e_thread>>

\* the variables of the calls modelled on their own
sideVars == <<detVars, retryVars, interpVars, uploadVars, fixVars, tierVars, fillVars, platVars, radioVars, sweepVars, visionVars, loopVars>>

(***************************************************************************)
(* Bounds of the model                                                     *)
(***************************************************************************)
\* longest instruction list a vision verdict carries in the model
MaxInstr == 1

\* largest attempt number handed to should_retry in the model
MaxAttempt == 6

\* longest instruction list handed to execute_vision_instructions on its own
MaxDirectives == 3

(***************************************************************************)
(* Values                                                                  *)
(***************************************************************************)
\* marker for a key that is not in the dict
NoKey == "<absent>"

\* Python truthiness of a dict value obtained with .get(): a missing key
\* yields None, an empty string is falsy
Truthy(v) == v \notin {NoKey, ""}

\* the request values the model draws for a string field
FieldValues(v) == {NoKey, "", v}

\* the resume the request refers to: none, a document in which no e-mail
\* address is found, a document in which one is found
Resumes == {"none", "cv_plain", "cv_email"}

\* the platform names detect_application_platform reports (lines 1493-1552):
\* the four recognised platforms, "generic" when nothing matches, and
\* "unknown" from its exception handler
Platforms == {"greenhouse", "lever", "workday", "ashby", "generic", "unknown"}

\* the keys of the dict returned at the end of apply_to_job_async
FullResultKeys == {"ok", "status", "job_url", "elapsed_s", "platform", "log",
                   "screenshot", "inspect_url", "evidence", "state", "metrics", "errors"}

\* a run state constructed at its last step
ApplicationStateLate == [current_step |-> "submitted",
                         encountered_issues |-> <<>>,
                         captcha_solved |-> FALSE,
                         platform_detected |-> "unknown"]

\* ApplicationState.__init__
ApplicationState == [current_step |-> "initial",
                     encountered_issues |-> <<>>,
                     captcha_solved |-> FALSE,
                     platform_detected |-> "unknown"]

\* nothing recorded yet
EmptyTrace == [created |-> 0,           \* browser sessions opened by the run
               navigated |-> FALSE,     \* page.goto(job_url) was called
               raised |-> FALSE,        \* an exception reached the top-level handler
               fill_done |-> FALSE,     \* the filling phase ran to its end
               captcha_tried |-> FALSE, \* solve_captcha_brightdata was called in the run
               captcha_calls |-> 0,     \* its calls in the current iteration
               tier_solved |-> FALSE,   \* in some call the managed tier answered
                                        \* solve_success or the paid tier injected a token
               tier_raised |-> FALSE,   \* a CAPTCHA tier raised in the current iteration
               submit_steps |-> 0,      \* executions of the submit step
               submit_clicked |-> FALSE,\* the submit step clicked the submit button
               interp_calls |-> 0,      \* calls of execute_vision_instructions
               interp_submit |-> FALSE, \* a replayed directive clicked a submit button
               last_interp |-> 0,       \* iteration of the last interpreter call
               detect_calls |-> 0,      \* calls of detect_success
               page_received |-> FALSE, \* the page of the last detect_success call
                                        \* held the text "application received"
               vision_calls |-> 0,      \* calls of analyze_screenshot_with_vision
               vision_posts |-> FALSE,  \* a call posted a request to the vision model
               decided |-> 0]           \* iteration of the last outcome decision

(***************************************************************************)
(* Resume loading and the precondition check                               *)
(***************************************************************************)
\* load_resume_bytes: None when the request names no resume (or it cannot be
\* decoded or fetched), the document's bytes otherwise
load_resume_bytes(resume) == resume

\* extract_from_pdf_bytes: the fields found in the document; "email" is
\* there only when the text holds an e-mail address
extract_from_pdf_bytes(pdf_bytes) ==
    IF pdf_bytes = "cv_email"
    THEN [k \in {"email", "__text"} |-> IF k = "email" THEN "cv@mail" ELSE "text"]
    ELSE [k \in {"__text"} |-> "text"]

\* for k, v in extracted.items(): user_data.setdefault(k, v)
\* (a key the dict already has, even with an empty value, is left alone)
setdefault_all(ud, extracted) ==
    [k \in DOMAIN ud |->
        IF k \in DOMAIN extracted /\ ud[k] = NoKey THEN extracted[k] ELSE ud[k]]

required == {"job_url", "email"}

\* mutant: only job_url is demanded
MissingOnlyUrl(ud) == {f \in {"job_url"} : ~Truthy(ud[f])}

\* missing = [f for f in required if not user_data.get(f)]
Missing(ud) == {f \in required : ~Truthy(ud[f])}

\* the dict of the early return: ok, status, missing, log
MissingResult(missing) ==
    [ok |-> FALSE, status |-> "missing_fields", missing |-> missing, log |-> "messages"]

\* the dict of the final return
FinalResult ==
    [k \in FullResultKeys |->
        CASE k = "ok" -> ok
          [] k = "status" -> status
          [] k = "platform" -> app_state.platform_detected
          [] k = "state" -> app_state
          [] OTHER -> k]

NoResult == [k \in {} |-> k]

Returned == pc = "done"

(***************************************************************************)
(* The top-level exception handler                                         *)
(***************************************************************************)
\* mutant: leaving the block ends no session
StopDriverKeeps(open) == open

\* line 1595: leaving the block of `async with async_playwright() as p`, by
\* its end or by an exception, stops the driver; the browsers it launched and
\* the connections it holds end with it (open: the sessions held at the exit)
StopDriver(open) == {}

\* mutant: the handler sets the status and leaves ok as it is
HandleFatalKeepsOk(tr, open) ==
    /\ status' = "error"
    /\ ok' = ok
    /\ pc' = "finish"
    /\ sessions' = StopDriver(open)
    /\ trace' = [tr EXCEPT !.raised = TRUE]

\* an exception raised inside the block of line 1595 leaves the block, which
\* stops the driver, and reaches except Exception as e: status = "error";
\* ok = False (tr is the history up to the statement that raised, open the
\* sessions held when it raised)
HandleFatal(tr, open) ==
    /\ status' = "error"
    /\ ok' = FALSE
    /\ pc' = "finish"
    /\ sessions' = StopDriver(open)
    /\ trace' = [tr EXCEPT !.raised = TRUE]

(***************************************************************************)
(* Actions of a run, before the loop                                       *)
(***************************************************************************)
\* lines 1576-1592: load and parse the resume, merge, check the mandatory fields
Precheck ==
    /\ pc = "start"
    /\ UNCHANGED sideVars
    /\ LET pdf_bytes == load_resume_bytes(request.resume)
           merged == IF pdf_bytes # "none"
                     THEN setdefault_all(user_data, extract_from_pdf_bytes(pdf_bytes))
                     ELSE user_data
           missing == Missing(merged)
       IN /\ user_data' = merged
          /\ IF missing # {}
             THEN /\ result' = MissingResult(missing)
                  /\ pc' = "done"
                  /\ UNCHANGED use_brightdata
             ELSE /\ use_brightdata' = request.brightdata
                  /\ pc' = IF request.brightdata THEN "connect" ELSE "launch_local"
                  /\ UNCHANGED result
    /\ UNCHANGED <<request, browser, sessions, attempt, nav_idx, clicked, retry_count,
                   captcha_attempt, ok, status, app_state, screenshot_b64,
                   basic_success, vision_result, trace>>

\* lines 1595-1622: entering the block of async_playwright() starts the
\* driver, which can raise before any attempt; then one attempt of
\* connect_over_cdp per step; the third failure raises
ConnectRemote ==
    /\ pc = "connect"
    /\ UNCHANGED sideVars
    /\ attempt < 3
    /\ \E outcome \in {"connected", "refused", "start_raises"} :
         CASE outcome = "connected" ->
                /\ browser' = "remote"
                /\ sessions' = sessions \cup {"remote"}
                /\ trace' = [trace EXCEPT !.created = @ + 1]
                /\ pc' = "remote_setup"
                /\ UNCHANGED <<attempt, ok, status>>
           [] outcome = "refused" ->
                /\ attempt' = attempt + 1
                /\ IF attempt + 1 = 3
                   THEN HandleFatal(trace, sessions)
                   ELSE UNCHANGED <<pc, trace, ok, status, sessions>>
                /\ UNCHANGED browser
           [] outcome = "start_raises" ->
                /\ attempt = 0
                /\ HandleFatal(trace, sessions)
                /\ UNCHANGED <<attempt, browser>>
    /\ UNCHANGED <<request, user_data, use_brightdata, nav_idx, clicked, retry_count,
                   captcha_attempt, app_state, screenshot_b64, basic_success,
                   vision_result, result>>

\* lines 1624-1669 and 1695-1714: context and page on the remote browser; an
\* exception of lines 1624-1665 switches to the local browser (the remote one
\* is not closed: the run holds it until it leaves the block); with the page
\* at hand, an exception of page.set_default_timeout or page.add_init_script
\* reaches the top-level handler
RemoteSetup ==
    /\ pc = "remote_setup"
    /\ UNCHANGED sideVars
    /\ \E outcome \in {"ok", "page_raises", "init_raises"} :
         CASE outcome = "ok" ->
                /\ pc' = "navigate"
                /\ UNCHANGED <<use_brightdata, ok, status, trace, sessions>>
           [] outcome = "page_raises" ->
                /\ use_brightdata' = FALSE
                /\ pc' = "launch_local"
                /\ UNCHANGED <<ok, status, trace, sessions>>
           [] outcome = "init_raises" ->
                /\ HandleFatal(trace, sessions)
                /\ UNCHANGED use_brightdata
    /\ attempt' = 0      \* the loop variable is not read after the loop
    /\ UNCHANGED <<request, user_data, browser, nav_idx, clicked, retry_count,
                   captcha_attempt, app_state, screenshot_b64,
                   basic_success, vision_result, result>>

\* lines 1671-1714: launch the local browser, open context and page
LaunchLocal ==
    /\ pc = "launch_local"
    /\ UNCHANGED sideVars
    /\ \E outcome \in {"ok", "launch_raises", "page_raises"} :
         CASE outcome = "ok" ->
                /\ browser' = "local"
                /\ sessions' = sessions \cup {"local"}
                /\ trace' = [trace EXCEPT !.created = @ + 1]
                /\ pc' = "navigate"
                /\ UNCHANGED <<ok, status>>
           [] outcome = "launch_raises" ->
                /\ HandleFatal(trace, sessions)
                /\ UNCHANGED browser
           [] outcome = "page_raises" ->
                /\ browser' = "local"
                /\ HandleFatal([trace EXCEPT !.created = @ + 1],
                               sessions \cup {"local"})
    /\ UNCHANGED <<request, user_data, use_brightdata, attempt, nav_idx, clicked, retry_count,
                   captcha_attempt, app_state, screenshot_b64, basic_success,
                   vision_result, result>>

\* a loop with a fourth strategy
WaitStatesFour == <<"commit", "domcontentloaded", "load", "networkidle">>

\* line 1721: the readiness strategies of page.goto, in the order of the loop
WaitStates == <<"commit", "domcontentloaded", "load">>

\* lines 1716-1742: page.goto with the strategy WaitStates[nav_idx + 1]; after
\* the failure of the last one raise last_err
Navigate ==
    /\ pc = "navigate"
    /\ UNCHANGED sideVars
    /\ nav_idx < Len(WaitStates)
    /\ \E loaded \in BOOLEAN :
         IF loaded
         THEN /\ app_state' = [app_state EXCEPT !.current_step = "page_loaded"]
              /\ trace' = [trace EXCEPT !.navigated = TRUE]
              /\ pc' = "detect_platform"
              /\ UNCHANGED <<nav_idx, ok, status, sessions>>
         ELSE /\ nav_idx' = nav_idx + 1
              /\ IF nav_idx + 1 = Len(WaitStates)
                 THEN HandleFatal([trace EXCEPT !.navigated = TRUE], sessions)
                 ELSE /\ trace' = [trace EXCEPT !.navigated = TRUE]
                      /\ UNCHANGED <<pc, ok, status, sessions>>
              /\ UNCHANGED app_state
    /\ UNCHANGED <<request, user_data, use_brightdata, browser, attempt, clicked,
                   retry_count, captcha_attempt, screenshot_b64, basic_success,
                   vision_result, result>>

\* lines 1744-1755: platform detection (it swallows its own errors) and the
\* simulated reading
DetectPlatform ==
    /\ pc = "detect_platform"
    /\ UNCHANGED sideVars
    /\ \E platform \in Platforms :
         app_state' = [app_state EXCEPT !.platform_detected = platform]
    /\ nav_idx' = 0      \* the loop variable is not read after the loop
    /\ pc' = "open_form"
    /\ UNCHANGED <<request, user_data, use_brightdata, browser, sessions, attempt, clicked,
                   retry_count, captcha_attempt, ok, status, screenshot_b64,
                   basic_success, vision_result, result, trace>>

\* lines 1757-1763: the apply modal and the resume upload (both swallow errors)
OpenForm ==
    /\ pc = "open_form"
    /\ UNCHANGED sideVars
    /\ app_state' = [app_state EXCEPT !.current_step = "form_opened"]
    /\ pc' = "fill"
    /\ UNCHANGED <<request, user_data, use_brightdata, browser, sessions, attempt, nav_idx, clicked,
                   retry_count, captcha_attempt, ok, status, screenshot_b64,
                   basic_success, vision_result, result, trace>>

\* lines 1765-1841: the filling phase and the required-field check;
\* check_required_errors reads page.content() outside its try, so it can raise
FillForm ==
    /\ pc = "fill"
    /\ UNCHANGED sideVars
    /\ app_state' = [app_state EXCEPT !.current_step = "filling_form"]
    /\ \E raises \in BOOLEAN :
         IF raises
         THEN HandleFatal(trace, sessions)
         ELSE /\ pc' = "branch"
              /\ trace' = [trace EXCEPT !.fill_done = TRUE]
              /\ UNCHANGED <<ok, status, sessions>>
    /\ UNCHANGED <<request, user_data, use_brightdata, browser, attempt, nav_idx, clicked,
                   retry_count, captcha_attempt, screenshot_b64,
                   basic_success, vision_result, result>>

(***************************************************************************)
(* Retry policy                                                            *)
(***************************************************************************)
\* mutant: the retry budget is one larger
MaxRetriesPlusOne == 5 + 1

\* MAX_RETRIES = 5
MAX_RETRIES == 5

\* mutant: one more wizard hop is allowed
MaxStepsPlusOne == 3 + 1

\* navigate_next_steps(page, messages, max_steps=3)
max_steps == 3

\* SmartRetrySystem.retry_patterns, and the default of .get()
retry_patterns(error_type) ==
    CASE error_type = "captcha" -> [max_attempts |-> 3, delay |-> 5]
      [] error_type = "network" -> [max_attempts |-> 5, delay |-> 2]
      [] error_type = "form_not_found" -> [max_attempts |-> 2, delay |-> 3]
      [] error_type = "submit" -> [max_attempts |-> 3, delay |-> 4]
      [] OTHER -> [max_attempts |-> 2, delay |-> 2]

\* mutant: the comparison is strict
ShouldRetryStrict(error_type, n) == ~(n > retry_patterns(error_type).max_attempts)

\* SmartRetrySystem.should_retry: the value it returns
should_retry(error_type, n) == ~(n >= retry_patterns(error_type).max_attempts)

\* SmartRetrySystem.should_retry: the seconds it sleeps before it returns
\* (asyncio.sleep(delay) comes after the early return)
should_retry_sleep(error_type, n) ==
    IF n >= retry_patterns(error_type).max_attempts
    THEN 0
    ELSE retry_patterns(error_type).delay

\* error categories handed to should_retry: the four of retry_patterns and
\* one that is not a key of it
ErrorTypes == {"captcha", "network", "form_not_found", "submit", "timeout"}

\* while retry_count < MAX_RETRIES
LoopGuard(rc) == rc < MAX_RETRIES

\* mutant: the loop is entered whatever plan_only says
SkipLoopNever(ud) == FALSE

\* if plan_only
SkipLoop(ud) == ud.plan_only

(***************************************************************************)
(* The heuristic outcome detector                                          *)
(***************************************************************************)
\* phrases a page of the model may hold (its lower-cased content)
Phrases == {"required", "invalid", "thank you", "application received"}

Pages == SUBSET Phrases

error_hits == {"please fill out this field", "required", "fix the errors", "invalid"}

SUCCESS_HINTS == {"thank you", "thanks for applying", "application received",
                  "we'll be in touch", "obrigado", "candidatura recebida",
                  "application submitted", "successfully applied",
                  "we will be in touch", "gracias", "candidatura enviada"}

\* any(h in html for h in hits)
AnyHit(hits, html) == \E h \in hits : h \in html

\* what the page does during one call of detect_success:
\*   content_raises      page.content() raises at the first scan
\*   changed             wait_for_url returns (the URL differs from job_url)
\*   timeout             wait_for_url raises PwTimeout
\*   wait_raises         wait_for_url raises another exception
\*   new_content_raises  page.content() raises at the re-scan
PageBehaviours == {"content_raises", "changed", "timeout", "wait_raises",
                   "new_content_raises"}

\* detect_success(page, job_url, messages): html is the content at the first
\* scan, new_html the content read after wait_for_url returned
detect_success(html, behaviour, new_html) ==
    IF behaviour = "content_raises" THEN FALSE
    ELSE IF AnyHit(error_hits, html) THEN FALSE
    ELSE IF AnyHit(SUCCESS_HINTS, html) THEN TRUE
    ELSE IF behaviour = "changed" THEN AnyHit(SUCCESS_HINTS, new_html)
    ELSE FALSE

\* the re-scan of detect_success reads the page: the first scan hit nothing
\* and wait_for_url returned
Rescanned(html, behaviour) ==
    /\ behaviour = "changed"
    /\ ~AnyHit(error_hits, html)
    /\ ~AnyHit(SUCCESS_HINTS, html)

(***************************************************************************)
(* The vision verdict and the instruction interpreter                      *)
(***************************************************************************)
\* corrective instructions of the model: one that fills a field, one that
\* clicks the submit button, one that matches no pattern
Directives == {"fill", "click_submit", "unknown"}

InstrLists == UNION {[1..n -> Directives] : n \in 0..MaxInstr}

\* return {"success": False, "reason": "API key not provided", "instructions": []}
NoKeyVerdict == [success |-> FALSE, reason |-> "API key not provided", instructions |-> <<>>]

\* the failure verdicts of the error paths (API error, invalid response,
\* unparsable text, exception)
FailureVerdict == [success |-> FALSE, reason |-> "failure", instructions |-> <<>>]

\* no verdict at hand
NoVerdict == [success |-> FALSE, reason |-> "none", instructions |-> <<>>]

\* verdicts parsed from the model's answer
ParsedVerdicts == [success : BOOLEAN, reason : {"model"}, instructions : InstrLists]

\* mutant: the credential is not tested
VisionWithoutKeyTest(openai_key) == {FailureVerdict} \cup ParsedVerdicts

\* analyze_screenshot_with_vision: the verdicts a call can return
analyze_screenshot_with_vision(openai_key) ==
    IF ~openai_key THEN {NoKeyVerdict} ELSE {FailureVerdict} \cup ParsedVerdicts

\* client.post(...) of line 1002 is reached only past the test of line 986
\* (nothing before it in the try raises on a str or None cv_text)
VisionPosts(openai_key) == openai_key

\* mutant: both signals are required
OutcomeAcceptedBoth(verdict, basic) == verdict.success /\ basic

\* a decision that accepts no outcome
OutcomeNeverAccepted(verdict, basic) == FALSE

\* if vision_result.get("success") or basic_success
OutcomeAccepted(verdict, basic) == verdict.success \/ basic

\* further directive strings: one that holds the word "fill" and does not
\* match the pattern of the fill branch, one marked UNSOLVABLE_IFRAME
AllDirectives == Directives \cup {"fill_malformed", "unsolvable_iframe"}

\* mutant: every directive performs an action
ExecutableAll(d) == TRUE

\* a directive performs a page operation when a branch takes it and the
\* branch's pattern matches; the others execute nothing
Executable(d) == d \notin {"unknown", "fill_malformed", "unsolvable_iframe"}

\* the argument of a call: a list of directives, None, or a truthy value
\* that has no length (a number)
InstructionArgs ==
    [kind : {"list"}, items : UNION {[1..n -> AllDirectives] : n \in 0..MaxDirectives}]
    \cup [kind : {"none", "number"}, items : {<<>>}]

\* what the page operation of one instruction does:
\*   done    it succeeds
\*   fails   it raises and the helper or the inner handler swallows it
\*   raises  it raises up to the handler of line 1396
PageOutcomes == {"done", "fails", "raises"}

(***************************************************************************)
(* The CAPTCHA tiers                                                       *)
(***************************************************************************)
\* what the managed resolution does: the status Captcha.waitForSolve
\* answers, or an exception of the CDP session
ManagedOutcomes == {"solve_success", "not_detected", "other_status", "raises"}

\* what the paid solving service does: not configured (no library or no
\* key), a token that was injected, no site key or no token, or an exception
PaidOutcomes == {"unavailable", "solved", "not_solved", "raises"}

\* solve_captcha: every failure inside its try returns False
solve_captcha(paid) == paid = "solved"

\* a text fallback that reports the challenge solved
TextCaptchaSolves == TRUE

\* solve_simple_text_captcha and solve_audio_captcha return False on every path
solve_simple_text_captcha == FALSE

solve_audio_captcha == FALSE

\* solve_captcha_improved: the paid service when configured, then the text
\* and audio fallbacks
solve_captcha_improved(paid) ==
    \/ paid # "unavailable" /\ solve_captcha(paid)
    \/ solve_simple_text_captcha
    \/ solve_audio_captcha

\* mutant: the managed resolution has no exception handler
SolveCaptchaUnguarded(use_bd, managed, paid) ==
    IF ~use_bd
    THEN [solved |-> solve_captcha_improved(paid), raised |-> FALSE]
    ELSE IF managed = "raises"
    THEN [solved |-> FALSE, raised |-> TRUE]
    ELSE [solved |-> managed = "solve_success", raised |-> FALSE]

\* solve_captcha_brightdata: what it returns, and whether an exception
\* leaves it (the except of line 771 falls back to solve_captcha_improved)
solve_captcha_brightdata(use_bd, managed, paid) ==
    IF ~use_bd
    THEN [solved |-> solve_captcha_improved(paid), raised |-> FALSE]
    ELSE IF managed = "raises"
    THEN [solved |-> solve_captcha_improved(paid), raised |-> FALSE]
    ELSE [solved |-> managed = "solve_success", raised |-> FALSE]

\* during the call the managed tier was asked and answered solve_success
\* (line 762), or the paid tier was asked (lines 742, 775, 720) and injected
\* the token it received (lines 893-962)
TierSolved(use_bd, managed, paid) ==
    \/ use_bd /\ managed = "solve_success"
    \/ (~use_bd \/ managed = "raises") /\ paid = "solved"

\* a tier raised during the call
TierRaised(use_bd, managed, paid) ==
    \/ use_bd /\ managed = "raises"
    \/ (~use_bd \/ managed = "raises") /\ paid = "raises"

(***************************************************************************)
(* Actions of a run: the loop                                              *)
(***************************************************************************)
\* lines 1843-1848: plan_only skips the loop
Branch ==
    /\ pc = "branch"
    /\ UNCHANGED sideVars
    /\ IF SkipLoop(user_data)
       THEN /\ status' = "planned_only"
            /\ pc' = "final_shot"
            /\ UNCHANGED retry_count
       ELSE /\ retry_count' = 0
            /\ pc' = "loop_head"
            /\ UNCHANGED status
    /\ UNCHANGED <<request, user_data, use_brightdata, browser, sessions, attempt, nav_idx, clicked,
                   captcha_attempt, ok, app_state, screenshot_b64, basic_success,
                   vision_result, result, trace>>

\* lines 1850-1885: the loop test, then scroll, expand, autofix and consent
\* (all of them swallow their errors)
LoopHead ==
    /\ pc = "loop_head"
    /\ UNCHANGED sideVars
    /\ IF LoopGuard(retry_count)
       THEN /\ retry_count' = retry_count + 1
            /\ captcha_attempt' = 0
            /\ trace' = [trace EXCEPT !.captcha_calls = 0, !.tier_raised = FALSE]
            /\ pc' = "captcha"
       ELSE /\ pc' = "after_loop"
            /\ UNCHANGED <<retry_count, captcha_attempt, trace>>
    /\ UNCHANGED <<request, user_data, use_brightdata, browser, sessions, attempt, nav_idx, clicked,
                   ok, status, app_state, screenshot_b64, basic_success,
                   vision_result, result>>

\* lines 1887-1893 with the first break removed: the loop goes on after a
\* solved attempt
AfterCaptchaNoBreak(solved, failed) ==
    IF should_retry("captcha", failed) THEN "captcha" ELSE "wizard"

\* lines 1887-1893: where the loop goes after an attempt: it breaks when the
\* attempt solved the challenge and when should_retry refuses another one
AfterCaptcha(solved, failed) ==
    IF solved THEN "wizard"
    ELSE IF should_retry("captcha", failed) THEN "captcha" ELSE "wizard"

\* lines 1886-1893: one round of the CAPTCHA loop; the call of line 1887 is
\* in no try of the loop, so an exception leaving it would be fatal
CaptchaAttempt ==
    /\ pc = "captcha"
    /\ UNCHANGED sideVars
    /\ IF captcha_attempt < 3
       THEN \E managed \in ManagedOutcomes, paid \in PaidOutcomes :
              LET r == solve_captcha_brightdata(use_brightdata, managed, paid)
                  tr == [trace EXCEPT
                           !.captcha_tried = TRUE,
                           !.captcha_calls = @ + 1,
                           !.tier_raised = @ \/ TierRaised(use_brightdata, managed, paid),
                           !.tier_solved = @ \/ TierSolved(use_brightdata, managed, paid)]
              IN IF r.raised
                 THEN /\ HandleFatal(tr, sessions)
                      /\ UNCHANGED <<captcha_attempt, app_state>>
                 ELSE /\ trace' = tr
                      /\ UNCHANGED <<ok, status, sessions>>
                      /\ IF r.solved
                         THEN /\ app_state' = [app_state EXCEPT !.captcha_solved = TRUE]
                              /\ pc' = AfterCaptcha(TRUE, captcha_attempt)
                              /\ UNCHANGED captcha_attempt
                         ELSE /\ captcha_attempt' = captcha_attempt + 1
                              /\ pc' = AfterCaptcha(FALSE, captcha_attempt + 1)
                              /\ UNCHANGED app_state
       ELSE /\ pc' = "wizard"
            /\ UNCHANGED <<captcha_attempt, app_state, trace, ok, status, sessions>>
    /\ UNCHANGED <<request, user_data, use_brightdata, browser, attempt, nav_idx, clicked,
                   retry_count, screenshot_b64, basic_success,
                   vision_result, result>>

\* lines 1896-1909, 517-543: validity, then navigate_next_steps(max_steps=3):
\* one pass of its loop clicks a Next/Continue button when one is visible and
\* leaves the loop when none is
WizardHop ==
    /\ pc = "wizard"
    /\ UNCHANGED sideVars
    /\ IF clicked < max_steps
       THEN \E found \in BOOLEAN :
              IF found
              THEN /\ clicked' = clicked + 1
                   /\ UNCHANGED pc
              ELSE /\ clicked' = 0     \* not read after the call
                   /\ pc' = "submit"
       ELSE /\ clicked' = 0
            /\ pc' = "submit"
    /\ UNCHANGED <<request, user_data, use_brightdata, browser, sessions, attempt, nav_idx,
                   retry_count, captcha_attempt, ok, status, app_state, screenshot_b64,
                   basic_success, vision_result, result, trace>>

\* lines 1910-1973: the review scroll (its errors are swallowed), then the
\* submit step
\*   locate_raises  an exception while locating or waiting for the button
\*   not_found      element_handle() gives no handle
\*   ready          the button is there and enabled
SubmitStep ==
    /\ pc = "submit"
    /\ UNCHANGED sideVars
    /\ \E found \in {"locate_raises", "not_found", "ready"},
          click \in {"human", "fallback", "click_raises"} :
         LET tr == [trace EXCEPT !.submit_steps = @ + 1, !.captcha_calls = 0,
                                 !.tier_raised = FALSE]
             issue == [app_state EXCEPT
                         !.encountered_issues = Append(@, "submit_error"),
                         !.current_step = "submitted"]
             step == [app_state EXCEPT !.current_step = "submitted"]
         IN CASE found = "locate_raises" ->
                   /\ click = "human"
                   /\ app_state' = issue
                   /\ trace' = tr
                   /\ pc' = "post_shot"
                   /\ UNCHANGED status
              [] found = "not_found" ->
                   /\ click = "human"
                   /\ app_state' = step
                   /\ trace' = tr
                   /\ pc' = "post_shot"
                   /\ UNCHANGED status
              [] found = "ready" /\ user_data.allow_submit ->
                   /\ IF click = "click_raises"
                      THEN /\ app_state' = issue
                           /\ trace' = tr
                      ELSE /\ app_state' = step
                           /\ trace' = [tr EXCEPT !.submit_clicked = TRUE]
                   /\ pc' = "post_shot"
                   /\ UNCHANGED status
              [] found = "ready" /\ ~user_data.allow_submit ->
                   /\ click = "human"
                   /\ status' = "awaiting_consent"
                   /\ trace' = tr
                   /\ pc' = "after_loop"
                   /\ UNCHANGED app_state
    /\ captcha_attempt' = 0     \* not read again before the next iteration resets it
    /\ UNCHANGED <<request, user_data, use_brightdata, browser, sessions, attempt, nav_idx, clicked,
                   retry_count, ok, screenshot_b64, basic_success,
                   vision_result, result>>

\* lines 1975-1984: the post-submit screenshot; a failure leaves the loop
PostShot ==
    /\ pc = "post_shot"
    /\ UNCHANGED sideVars
    /\ \E captured \in BOOLEAN :
         IF captured
         THEN /\ screenshot_b64' = TRUE
              /\ pc' = "detect"
         ELSE /\ pc' = "after_loop"
              /\ UNCHANGED screenshot_b64
    /\ UNCHANGED <<request, user_data, use_brightdata, browser, sessions, attempt, nav_idx, clicked,
                   retry_count, captcha_attempt, ok, status, app_state, basic_success,
                   vision_result, result, trace>>

\* lines 1986-1987: the heuristic detector on whatever the page shows
DetectOutcome ==
    /\ pc = "detect"
    /\ UNCHANGED sideVars
    /\ \E html \in Pages, behaviour \in PageBehaviours, new_html \in Pages :
         /\ basic_success' = detect_success(html, behaviour, new_html)
         /\ trace' = [trace EXCEPT !.detect_calls = @ + 1,
                                   !.page_received = "application received" \in html]
    /\ pc' = "vision"
    /\ UNCHANGED <<request, user_data, use_brightdata, browser, sessions, attempt, nav_idx, clicked,
                   retry_count, captcha_attempt, ok, status, app_state, screenshot_b64,
                   vision_result, result>>

\* lines 1989-1992: the vision verdict
Vision ==
    /\ pc = "vision"
    /\ UNCHANGED sideVars
    /\ vision_result' \in analyze_screenshot_with_vision(user_data.openai_api_key)
    /\ trace' = [trace EXCEPT !.vision_calls = @ + 1,
                              !.vision_posts = @ \/ VisionPosts(user_data.openai_api_key)]
    /\ pc' = "decide"
    /\ UNCHANGED <<request, user_data, use_brightdata, browser, sessions, attempt, nav_idx, clicked,
                   retry_count, captcha_attempt, ok, status, app_state, screenshot_b64,
                   basic_success, result>>

\* lines 1994-2013: accept, replay, or give up
Decide ==
    /\ pc = "decide"
    /\ UNCHANGED sideVars
    /\ trace' = [trace EXCEPT !.decided = retry_count]
    /\ IF OutcomeAccepted(vision_result, basic_success)
       THEN /\ ok' = TRUE
            /\ status' = "submitted"
            /\ pc' = "after_loop"
       ELSE IF vision_result.instructions # <<>> /\ retry_count < MAX_RETRIES
       THEN /\ pc' = "interpret"
            /\ UNCHANGED <<ok, status>>
       ELSE /\ ok' = FALSE
            /\ status' = "not_confirmed"
            /\ pc' = "after_loop"
    /\ UNCHANGED <<request, user_data, use_brightdata, browser, sessions, attempt, nav_idx, clicked,
                   retry_count, captcha_attempt, app_state, screenshot_b64,
                   basic_success, vision_result, result>>

\* line 2005, lines 1119-1400: the interpreter replays the instructions; each
\* executable one succeeds or fails on the page. The verdict is not read
\* again before the next one replaces it, so it is dropped here.
Interpret ==
    /\ pc = "interpret"
    /\ UNCHANGED sideVars
    /\ LET instructions == vision_result.instructions
       IN \E succeeded \in [1..Len(instructions) -> BOOLEAN] :
            /\ \A i \in 1..Len(instructions) :
                 succeeded[i] => Executable(instructions[i])
            /\ trace' = [trace EXCEPT
                 !.interp_calls = @ + 1,
                 !.last_interp = retry_count,
                 !.page_received = FALSE,
                 !.interp_submit = @ \/ \E i \in 1..Len(instructions) :
                                          instructions[i] = "click_submit" /\ succeeded[i]]
    /\ vision_result' = NoVerdict
    /\ pc' = "loop_head"
    /\ UNCHANGED <<request, user_data, use_brightdata, browser, sessions, attempt, nav_idx, clicked,
                   retry_count, captcha_attempt, ok, status, app_state, screenshot_b64,
                   basic_success, result>>

\* lines 2015-2017; the outcome signals of the last iteration are not read
\* after the loop, so they are dropped here
AfterLoop ==
    /\ pc = "after_loop"
    /\ UNCHANGED sideVars
    /\ status' = IF retry_count >= MAX_RETRIES /\ ~ok THEN "max_retries_reached" ELSE status
    /\ basic_success' = FALSE
    /\ vision_result' = NoVerdict
    /\ captcha_attempt' = 0
    /\ trace' = [trace EXCEPT !.captcha_calls = 0, !.tier_raised = FALSE]
    /\ pc' = "final_shot"
    /\ UNCHANGED <<request, user_data, use_brightdata, browser, sessions, attempt, nav_idx, clicked,
                   retry_count, ok, app_state, screenshot_b64, result>>

(***************************************************************************)
(* Actions of a run: the end                                               *)
(***************************************************************************)
\* lines 2019-2026: the final screenshot, taken when none was kept
FinalShot ==
    /\ pc = "final_shot"
    /\ UNCHANGED sideVars
    /\ IF ~screenshot_b64
       THEN \E captured \in BOOLEAN : screenshot_b64' = captured
       ELSE UNCHANGED screenshot_b64
    /\ pc' = "close"
    /\ UNCHANGED <<request, user_data, use_brightdata, browser, sessions, attempt, nav_idx, clicked,
                   retry_count, captcha_attempt, ok, status, app_state, basic_success,
                   vision_result, result, trace>>

\* line 2028 and the end of the block of line 1595: browser.close() closes
\* the browser the run is using, or raises; after it has closed the browser
\* the run leaves the block, which stops the driver and ends the sessions
\* still held (the remote one after a fallback); the stop can raise too
Close ==
    /\ pc = "close"
    /\ UNCHANGED sideVars
    /\ \E outcome \in {"closed", "close_raises", "stop_raises"} :
         CASE outcome = "closed" ->
                /\ sessions' = StopDriver(sessions \ {browser})
                /\ pc' = "finish"
                /\ UNCHANGED <<ok, status, trace>>
           [] outcome = "close_raises" ->
                /\ HandleFatal(trace, sessions)
           [] outcome = "stop_raises" ->
                /\ HandleFatal(trace, sessions \ {browser})
    /\ UNCHANGED <<request, user_data, use_brightdata, browser, attempt, nav_idx, clicked,
                   retry_count, captcha_attempt, app_state, screenshot_b64,
                   basic_success, vision_result, result>>

\* lines 2036-2064: metrics and the returned dict
Finish ==
    /\ pc = "finish"
    /\ UNCHANGED sideVars
    /\ result' = FinalResult
    /\ pc' = "done"
    /\ UNCHANGED <<request, user_data, use_brightdata, browser, sessions, attempt, nav_idx, clicked,
                   retry_count, captcha_attempt, ok, status, app_state, screenshot_b64,
                   basic_success, vision_result, trace>>

(***************************************************************************)
(* One call of detect_success on its own                                   *)
(***************************************************************************)
\* the call returns what detect_success computes for the page it is given
DetectCall ==
    /\ d_pc = "call"
    /\ d_ret' = detect_success(d_html, d_behaviour, d_new)
    /\ d_pc' = "returned"
    /\ UNCHANGED <<d_html, d_behaviour, d_new>>

(***************************************************************************)
(* Calls of should_retry on their own                                      *)
(***************************************************************************)
\* a caller hands any attempt number of its category to should_retry
RetryCall ==
    /\ r_pc = "idle"
    /\ r_attempt' \in 0..MaxAttempt
    /\ r_pc' = "call"
    /\ UNCHANGED <<r_type, r_ret, r_slept, r_refused>>

\* the call returns
RetryReturn ==
    /\ r_pc = "call"
    /\ r_ret' = should_retry(r_type, r_attempt)
    /\ r_slept' = should_retry_sleep(r_type, r_attempt)
    /\ r_refused' = IF ~should_retry(r_type, r_attempt)
                          /\ (r_refused = -1 \/ r_attempt < r_refused)
                    THEN r_attempt ELSE r_refused
    /\ r_pc' = "idle"
    /\ UNCHANGED <<r_type, r_attempt>>

(***************************************************************************)
(* One call of execute_vision_instructions on its own                      *)
(***************************************************************************)
\* lines 1124-1128: nothing to do for a falsy argument; len() of line 1127
\* is outside every try and raises on a value that has no length
InterpEnter ==
    /\ i_pc = "call"
    /\ CASE i_instructions.kind = "none" \/ (i_instructions.kind = "list"
                                              /\ i_instructions.items = <<>>) ->
              /\ i_ret' = FALSE
              /\ i_pc' = "returned"
              /\ UNCHANGED <<i_next, executed_count>>
         [] i_instructions.kind = "number" ->
              /\ i_pc' = "raised"
              /\ UNCHANGED <<i_ret, i_next, executed_count>>
         [] OTHER ->
              /\ executed_count' = 0
              /\ i_next' = 1
              /\ i_pc' = "loop"
              /\ UNCHANGED i_ret
    /\ UNCHANGED <<i_instructions, i_page_failed>>

\* lines 1173-1397: one instruction; whatever it raises is swallowed
InterpStep ==
    /\ i_pc = "loop"
    /\ i_next <= Len(i_instructions.items)
    /\ \E outcome \in PageOutcomes :
         LET d == i_instructions.items[i_next]
         IN /\ ~Executable(d) => outcome = "fails"
            /\ executed_count' = IF Executable(d) /\ outcome = "done"
                                 THEN executed_count + 1 ELSE executed_count
            /\ i_page_failed' = (i_page_failed \/ (Executable(d) /\ outcome # "done"))
    /\ i_next' = i_next + 1
    /\ UNCHANGED <<i_pc, i_instructions, i_ret>>

\* lines 1399-1400
InterpReturn ==
    /\ i_pc = "loop"
    /\ i_next > Len(i_instructions.items)
    /\ i_ret' = (executed_count > 0)
    /\ i_pc' = "returned"
    /\ UNCHANGED <<i_instructions, i_next, executed_count, i_page_failed>>

(***************************************************************************)
(* Two runs in one event loop, each inside upload_resume                   *)
(***************************************************************************)
\* the runs that execute concurrently
Runs == {1, 2}

\* the resume bytes of a run: None, or a document that is the run's own
ResumeBytes(run) == {"none", IF run = 1 THEN "resume_1" ELSE "resume_2"}

\* lines 376-381: without bytes the call returns at once; otherwise the bytes
\* are written to the fixed path (open and write do not suspend). When open()
\* raises the file is as it was; when the write raises, open(..., "wb") has
\* already truncated the file: it is left empty, or holding the first bytes
\* of the resume only ("partial")
UploadWrite(run) ==
    /\ u_pc[run] = "call"
    /\ IF u_pdf_bytes[run] = "none"
       THEN /\ u_pc' = [u_pc EXCEPT ![run] = "returned"]
            /\ UNCHANGED tmp_file
       ELSE \E outcome \in {"written", "open_raises", "write_raises"} :
              CASE outcome = "written" ->
                     /\ tmp_file' = u_pdf_bytes[run]
                     /\ u_pc' = [u_pc EXCEPT ![run] = "count"]
                [] outcome = "open_raises" ->
                     /\ u_pc' = [u_pc EXCEPT ![run] = "returned"]
                     /\ UNCHANGED tmp_file
                [] outcome = "write_raises" ->
                     /\ u_pc' = [u_pc EXCEPT ![run] = "returned"]
                     /\ tmp_file' \in {"empty", "partial"}
    /\ UNCHANGED <<u_pdf_bytes, u_uploaded>>

\* lines 382-383: await file_input.count() on the resume selectors: the run
\* is suspended here; an input is found, none is, or the call raises
UploadCount(run) ==
    /\ u_pc[run] = "count"
    /\ \E n \in {"some", "zero", "raises"} :
         u_pc' = [u_pc EXCEPT ![run] =
                    CASE n = "some" -> "count_again"
                      [] n = "zero" -> "count_any"
                      [] n = "raises" -> "returned"]
    /\ UNCHANGED <<u_pdf_bytes, u_uploaded, tmp_file>>

\* lines 385, 389-391: the input found, await file_input.count() is called a
\* second time on the same locator: the run is suspended again; the input is
\* still there, or it is gone or the call raises
UploadCountAgain(run) ==
    /\ u_pc[run] = "count_again"
    /\ \E has_input \in BOOLEAN :
         u_pc' = [u_pc EXCEPT ![run] = IF has_input THEN "set_input_files"
                                       ELSE "returned"]
    /\ UNCHANGED <<u_pdf_bytes, u_uploaded, tmp_file>>

\* lines 384-385, 389-391: none found, the count of line 385 is on
\* input[type='file']
UploadCountAny(run) ==
    /\ u_pc[run] = "count_any"
    /\ \E has_input \in BOOLEAN :
         u_pc' = [u_pc EXCEPT ![run] = IF has_input THEN "set_input_files"
                                       ELSE "returned"]
    /\ UNCHANGED <<u_pdf_bytes, u_uploaded, tmp_file>>

\* lines 386-388: set_input_files(tmp_path) sends what the file holds now,
\* or raises
UploadSetInputFiles(run) ==
    /\ u_pc[run] = "set_input_files"
    /\ \E sent \in BOOLEAN :
         u_uploaded' = IF sent THEN [u_uploaded EXCEPT ![run] = tmp_file]
                       ELSE u_uploaded
    /\ u_pc' = [u_pc EXCEPT ![run] = "returned"]
    /\ UNCHANGED <<u_pdf_bytes, tmp_file>>

(***************************************************************************)
(* autofix_required_fields and check_required_errors on a required select  *)
(***************************************************************************)
MaxOptions == 2

\* the value attributes and the labels of the options of the page
OptionValues == {"", " ", "0", "pt"}

OptionLabels == {"Select...", "Choose...", "Self-selected", "Portugal"}

\* an option is read and selected, or select_option raises for it (a disabled
\* option), or reading it raises (it left the document)
OptionBehaviours == {"selects", "refuses", "detached"}

Options == [value : OptionValues, label : OptionLabels, behaviour : OptionBehaviours]

OptionLists == UNION {[1..n -> Options] : n \in 0..MaxOptions}

\* the name attribute of the select
SelectName == "country"

\* line 562: value and value.strip()
NonBlank(value) == value \notin {"", " "}

\* line 562: "select" in label.lower()
HasSelect(label) == label \in {"Select...", "Self-selected"}

\* line 562: the options the sweep tries to select
Eligible(opt) == NonBlank(opt.value) /\ ~HasSelect(opt.label)

\* a required select is :invalid while the value it holds is empty
Invalid(value) == value = ""

\* lines 548-558: the sweep finds the select and reads its value; an
\* exception of input_value() counts as an empty value, any other exception
\* ends the sweep (line 569)
AutofixCall ==
    /\ a_pc = "call"
    /\ \E outcome \in {"read", "input_value_raises", "raises"} :
         /\ current' = IF outcome = "read" THEN a_value ELSE ""
         /\ IF outcome # "raises" /\ current' = "" /\ Len(a_options) > 0
            THEN a_pc' = "options" /\ a_next' = 1
            ELSE a_pc' = "swept" /\ a_next' = 0
    /\ UNCHANGED <<a_options, a_start, a_value, fixed, problems>>

\* lines 559-568: one option of the loop: the first eligible option that
\* select_option accepts is selected and ends the loop
AutofixOption ==
    /\ a_pc = "options"
    /\ LET opt == a_options[a_next]
           selected == opt.behaviour = "selects" /\ Eligible(opt)
           last == a_next = Len(a_options)
       IN  /\ a_value' = IF selected THEN opt.value ELSE a_value
           /\ fixed' = IF selected THEN fixed + 1 ELSE fixed
           /\ IF selected \/ last \/ opt.behaviour = "detached"
              THEN a_pc' = "swept" /\ a_next' = 0
              ELSE a_pc' = "options" /\ a_next' = a_next + 1
    /\ UNCHANGED <<a_options, a_start, current, problems>>

\* lines 405-422: the :invalid scan (its exceptions are swallowed), then the
\* needles looked up in the page content, which holds "required" because the
\* select carries that attribute; page.content() is outside the try
check_required_errors ==
    /\ a_pc = "swept"
    /\ \E scanned \in BOOLEAN, content \in BOOLEAN,
          shown \in SUBSET {"please fill out this field", "campo obrigatório"} :
         IF content
         THEN /\ problems' =
                    (IF scanned /\ Invalid(a_value)
                     THEN {[kind |-> "invalid", what |-> SelectName]} ELSE {})
                    \cup {[kind |-> "text", what |-> needle] :
                            needle \in shown \cup {"required"}}
              /\ a_pc' = "checked"
         ELSE /\ problems' = {}
              /\ a_pc' = "raised"
    /\ UNCHANGED <<a_options, a_start, a_value, current, a_next, fixed>>

(***************************************************************************)
(* solve_captcha_brightdata, one tier per step                              *)
(***************************************************************************)
\* what the text fallback finds: a text CAPTCHA image, none, or an exception
TextOutcomes == {"detected", "absent", "raises"}

\* what the audio fallback finds: the audio button (clicked), none, or an
\* exception
AudioOutcomes == {"clicked", "absent", "raises"}

TierEnvs == [use_brightdata : BOOLEAN, managed : ManagedOutcomes, paid : PaidOutcomes,
             text : TextOutcomes, audio : AudioOutcomes]

NoTiers == [use_brightdata |-> FALSE, managed |-> "not_detected", paid |-> "unavailable",
            text |-> "absent", audio |-> "absent"]

\* lines 740-742: without the remote browser the call is solve_captcha_improved
TierEnter ==
    /\ t_pc = "call"
    /\ t_pc' = IF t_env.use_brightdata THEN "managed" ELSE "improved"
    /\ UNCHANGED <<t_env, tried, t_ret>>

\* lines 746-775: the managed resolution: solve_success returns True, any
\* other status returns False, an exception falls back to solve_captcha_improved
TierManaged ==
    /\ t_pc = "managed"
    /\ tried' = Append(tried, "managed")
    /\ IF t_env.managed = "raises"
       THEN t_pc' = "improved" /\ UNCHANGED t_ret
       ELSE t_pc' = "returned" /\ t_ret' = (t_env.managed = "solve_success")
    /\ UNCHANGED t_env

\* lines 715-722: solve_captcha_improved calls the paid service only when the
\* library and the key are there
TierImproved ==
    /\ t_pc = "improved"
    /\ t_pc' = IF t_env.paid # "unavailable" THEN "paid" ELSE "text"
    /\ UNCHANGED <<t_env, tried, t_ret>>

\* lines 721-722, 776-970: the paid service
TierPaid ==
    /\ t_pc = "paid"
    /\ tried' = Append(tried, "paid")
    /\ IF solve_captcha(t_env.paid)
       THEN t_pc' = "returned" /\ t_ret' = TRUE
       ELSE t_pc' = "text" /\ UNCHANGED t_ret
    /\ UNCHANGED t_env

\* lines 724-726, 689-699: the text fallback returns False on every path
TierText ==
    /\ t_pc = "text"
    /\ tried' = Append(tried, "text")
    /\ IF solve_simple_text_captcha
       THEN t_pc' = "returned" /\ t_ret' = TRUE
       ELSE t_pc' = "audio" /\ UNCHANGED t_ret
    /\ UNCHANGED t_env

\* lines 728-733, 701-713: the audio fallback returns False on every path
TierAudio ==
    /\ t_pc = "audio"
    /\ tried' = Append(tried, "audio")
    /\ t_pc' = "returned"
    /\ t_ret' = solve_audio_captcha
    /\ UNCHANGED t_env

(***************************************************************************)
(* The filling phase, one block of fields per step                         *)
(***************************************************************************)
\* user_data["full_name"]: absent, blank, one word, two words
NameValues == {"", " ", "Ana", "Ana Silva"}

\* the other inputs of the phase that may hold a value
OtherFields == {"resume", "email", "phone", "location", "current_company",
                "current_location", "salary_expectations", "notice_period",
                "additional_info"}

\* lines 1774-1779: the fields filled by label first
LabelFields == <<"full_name", "email", "phone">>

\* lines 1790-1791
ContactFields == <<"email", "phone">>

\* lines 1818-1830
RestFields == <<"salary_expectations", "notice_period", "additional_info">>

\* the helpers return False at once for an empty value ("if not value")
HasValue(field) == IF field = "full_name" THEN f_name # "" ELSE field \in f_present

\* a chain of strategies nested in "if not await ...": a strategy is called
\* only when every one before it returned False, so the chain succeeds at
\* one strategy or fails at all of them; no helper raises
Chain(field, has_value) ==
    IF has_value
    THEN \E success \in BOOLEAN :
           /\ f_ok' = IF success THEN f_ok \cup {field} ELSE f_ok
           /\ f_failed' = IF success THEN f_failed ELSE f_failed \cup {field}
    ELSE UNCHANGED <<f_ok, f_failed>>

\* one call of fill_field for a field that fill_by_possible_labels handled
\* before (lines 1782, 1790, 1791): it is made whatever the earlier call returned
SecondStrategy(field, filled) ==
    /\ f_again' = IF field \in f_ok THEN f_again \cup {field} ELSE f_again
    /\ f_ok' = IF filled THEN f_ok \cup {field} ELSE f_ok

\* lines 1759-1763: the name "resume" is added whatever upload_resume returned
FillResume ==
    /\ f_pc = "resume"
    /\ IF "resume" \in f_present
       THEN /\ \E uploaded \in BOOLEAN :
                 f_ok' = IF uploaded THEN f_ok \cup {"resume"} ELSE f_ok
            /\ filled_fields' = filled_fields \cup {"resume"}
       ELSE UNCHANGED <<f_ok, filled_fields>>
    /\ f_pc' = "labels"
    /\ f_i' = 1
    /\ UNCHANGED <<f_name, f_present, f_issues, f_again, f_failed>>

\* lines 1774-1779: fill_by_possible_labels for the full name, the email and
\* the phone; a success adds the name to filled_fields
FillByLabels ==
    /\ f_pc = "labels"
    /\ LET field == LabelFields[f_i]
       IN IF HasValue(field)
          THEN \E filled \in BOOLEAN :
                 /\ filled_fields' = IF filled THEN filled_fields \cup {field}
                                     ELSE filled_fields
                 /\ f_ok' = IF filled THEN f_ok \cup {field} ELSE f_ok
          ELSE UNCHANGED <<filled_fields, f_ok>>
    /\ IF f_i < Len(LabelFields)
       THEN f_i' = f_i + 1 /\ UNCHANGED f_pc
       ELSE f_i' = 0 /\ f_pc' = "name"
    /\ UNCHANGED <<f_name, f_present, f_issues, f_again, f_failed>>

\* lines 1782-1788: fill_field by the selector of the full name, then the
\* first and last name; split() of a blank name gives no part, so parts[0]
\* raises IndexError
FillName ==
    /\ f_pc = "name"
    /\ IF f_name = ""
       THEN /\ f_pc' = "contact"
            /\ f_i' = 1
            /\ UNCHANGED <<f_ok, f_again, f_failed>>
       ELSE \E filled_name \in BOOLEAN :
              IF filled_name
              THEN /\ SecondStrategy("full_name", TRUE)
                   /\ f_pc' = "contact"
                   /\ f_i' = 1
                   /\ UNCHANGED f_failed
              ELSE IF f_name = " "
              THEN /\ SecondStrategy("full_name", FALSE)
                   /\ f_failed' = IF "full_name" \in f_ok THEN f_failed
                                  ELSE f_failed \cup {"full_name"}
                   /\ f_pc' = "raised"
                   /\ f_i' = 0
              ELSE \E first \in BOOLEAN, last \in BOOLEAN :
                     /\ last => f_name = "Ana Silva"
                     /\ SecondStrategy("full_name", first \/ last)
                     /\ f_failed' = IF first \/ last \/ "full_name" \in f_ok THEN f_failed
                                    ELSE f_failed \cup {"full_name"}
                     /\ f_pc' = "contact"
                     /\ f_i' = 1
    /\ UNCHANGED <<f_name, f_present, filled_fields, f_issues>>

\* lines 1790-1791: fill_field by selector for the email and the phone
FillContact ==
    /\ f_pc = "contact"
    /\ LET field == ContactFields[f_i]
       IN IF HasValue(field)
          THEN \E filled \in BOOLEAN :
                 /\ SecondStrategy(field, filled)
                 /\ f_failed' = IF filled \/ field \in f_ok THEN f_failed
                                ELSE f_failed \cup {field}
          ELSE UNCHANGED <<f_ok, f_again, f_failed>>
    /\ IF f_i < Len(ContactFields)
       THEN f_i' = f_i + 1 /\ UNCHANGED f_pc
       ELSE f_i' = 0 /\ f_pc' = "location"
    /\ UNCHANGED <<f_name, f_present, filled_fields, f_issues>>

\* lines 1794-1801: the location (or else the current location) through four
\* nested strategies
FillLocation ==
    /\ f_pc = "location"
    /\ Chain("location", "location" \in f_present \/ "current_location" \in f_present)
    /\ f_pc' = "company"
    /\ UNCHANGED <<f_i, f_name, f_present, filled_fields, f_issues, f_again>>

\* lines 1804-1807: the current company, by label and then by selector
FillCompany ==
    /\ f_pc = "company"
    /\ Chain("current_company", "current_company" \in f_present)
    /\ f_pc' = "current_location"
    /\ UNCHANGED <<f_i, f_name, f_present, filled_fields, f_issues, f_again>>

\* lines 1810-1815: the current location through three nested strategies
FillCurrentLocation ==
    /\ f_pc = "current_location"
    /\ Chain("current_location", "current_location" \in f_present)
    /\ f_pc' = "rest"
    /\ f_i' = 1
    /\ UNCHANGED <<f_name, f_present, filled_fields, f_issues, f_again>>

\* lines 1818-1830: salary, notice period and additional information, each by
\* label and then by selector
FillRest ==
    /\ f_pc = "rest"
    /\ Chain(RestFields[f_i], RestFields[f_i] \in f_present)
    /\ IF f_i < Len(RestFields)
       THEN f_i' = f_i + 1 /\ UNCHANGED f_pc
       ELSE f_i' = 0 /\ f_pc' = "filled"
    /\ UNCHANGED <<f_name, f_present, filled_fields, f_issues, f_again>>

(***************************************************************************)
(* detect_application_platform                                             *)
(***************************************************************************)
\* the platform domains looked up in page.url
PlatformDomains == {"greenhouse.io", "lever.co", "workday.com", "ashbyhq.com"}

\* the words and form markers looked up in the page content
PlatformMarkers == {"greenhouse", "lever", "workday", "ashby",
                    "[data-qa='application-form']", "application_form"}

\* lines 1546-1552: the dict of the exception handler; "selectors" names the
\* selector set of the dict: greenhouse, lever, empty (workday) or the
\* generic SELECTORS
NoPlatform == [platform |-> "unknown", confidence |-> "none", selectors |-> "SELECTORS"]

\* lines 1487-1552: the first test that matches decides; each of the first
\* four tests accepts the domain in the URL or the platform's word in the
\* page content
detect_application_platform(url, html, raises) ==
    IF raises THEN NoPlatform
    ELSE IF "greenhouse.io" \in url \/ "greenhouse" \in html
    THEN [platform |-> "greenhouse", confidence |-> "high", selectors |-> "greenhouse"]
    ELSE IF "lever.co" \in url \/ "lever" \in html
    THEN [platform |-> "lever", confidence |-> "high", selectors |-> "lever"]
    ELSE IF "workday.com" \in url \/ "workday" \in html
    THEN [platform |-> "workday", confidence |-> "high", selectors |-> "empty"]
    ELSE IF "ashbyhq.com" \in url \/ "ashby" \in html
    THEN [platform |-> "ashby", confidence |-> "high", selectors |-> "SELECTORS"]
    ELSE IF "[data-qa='application-form']" \in html \/ "application_form" \in html
    THEN [platform |-> "greenhouse", confidence |-> "medium", selectors |-> "SELECTORS"]
    ELSE [platform |-> "generic", confidence |-> "low", selectors |-> "SELECTORS"]

\* one call on the page
PlatformCall ==
    /\ p_pc = "call"
    /\ p_ret' = detect_application_platform(p_url, p_html, p_raises)
    /\ p_pc' = "returned"
    /\ UNCHANGED <<p_url, p_html, p_raises>>

(***************************************************************************)
(* autofix_required_fields: the radio sweep                                *)
(***************************************************************************)
MaxRadios == 3

\* the name attribute of a radio ("": none)
RadioNames == {"", "gender", "visa"}

\* what a radio does: check() sets it, check() raises, or reading its name
\* raises (the element left the document)
RadioBehaviours == {"checks", "refuses", "detached"}

Radios == [name : RadioNames, behaviour : RadioBehaviours]

RadioLists == UNION {[1..n -> Radios] : n \in 0..MaxRadios}

\* two radios belong to one group when they carry the same name
SameGroup(list, i, j) == i = j \/ (list[i].name # "" /\ list[i].name = list[j].name)

\* a page holds at most one checked radio per group
OnePerGroup(list, checked) ==
    \A i \in checked, j \in checked : SameGroup(list, i, j) => i = j

\* line 615: the key of the group in seen: the name, or "__rd<i>" without one
SeenKey(i) == IF radios[i].name = "" THEN <<"__rd", i>> ELSE <<radios[i].name>>

\* line 616: the group of the radio was met before in this sweep
AlreadySeen(i) == SeenKey(i) \in seen

\* lines 609-612: the sweep starts; count() may raise (line 624)
RadioSweepStart ==
    /\ rd_pc = "call"
    /\ \E counted \in BOOLEAN :
         IF counted /\ Len(radios) > 0
         THEN rd_pc' = "radios" /\ rd_i' = 1
         ELSE rd_pc' = "swept" /\ rd_i' = 0
    /\ UNCHANGED <<radios, rd_start, rd_checked, seen, rd_fixed>>

\* lines 613-623: one radio of the loop: its name is read outside the inner
\* try; the first radio of every name is checked, whatever the group holds
RadioSweepStep ==
    /\ rd_pc = "radios"
    /\ LET rd == radios[rd_i]
           last == rd_i = Len(radios)
       IN IF rd.behaviour = "detached"
          THEN /\ rd_pc' = "swept"
               /\ rd_i' = 0
               /\ UNCHANGED <<rd_checked, seen, rd_fixed>>
          ELSE /\ IF AlreadySeen(rd_i)
                  THEN UNCHANGED <<rd_checked, seen, rd_fixed>>
                  ELSE /\ seen' = seen \cup {SeenKey(rd_i)}
                       /\ IF rd.behaviour = "checks"
                          THEN /\ rd_checked' =
                                     {j \in rd_checked : ~SameGroup(radios, rd_i, j)}
                                     \cup {rd_i}
                               /\ rd_fixed' = rd_fixed \cup {rd_i}
                          ELSE UNCHANGED <<rd_checked, rd_fixed>>
               /\ IF last
                  THEN rd_pc' = "swept" /\ rd_i' = 0
                  ELSE rd_pc' = "radios" /\ rd_i' = rd_i + 1
    /\ UNCHANGED <<radios, rd_start>>

(***************************************************************************)
(* autofix_required_fields: the five sweeps and their exception handlers   *)
(***************************************************************************)
MaxControls == 3

\* the sweeps in the order of the code, each named by the controls its fix
\* is made for
Sweeps == <<"select", "combobox", "checkbox", "radio", "input">>

\* what the operations on a control do:
\*   fixed           all of them succeed
\*   value_raises    reading its value or state raises
\*   listing_raises  listing or reading the options of a select raises
\*   name_raises     reading the name of a radio raises
\*   fix_raises      applying the fix raises
ControlBehaviours(kind) ==
    CASE kind = "select" -> {"fixed", "value_raises", "listing_raises", "fix_raises"}
      [] kind = "combobox" -> {"fixed", "fix_raises"}
      [] kind = "checkbox" -> {"fixed", "value_raises", "fix_raises"}
      [] kind = "radio" -> {"fixed", "name_raises", "fix_raises"}
      [] kind = "input" -> {"fixed", "value_raises", "fix_raises"}

\* how the page marks a control as required: the attribute required, or
\* aria-required='true'
Markings == {"required", "aria"}

\* line 562: what the options of a control are to the guard
\* value and value.strip() and "select" not in label.lower():
\*   eligible    a select with an option that passes it
\*   ineligible  a select of which no option passes it (placeholders only)
\*   none        a control of another kind, which has no options
ControlOptions(kind) ==
    IF kind = "select" THEN {"eligible", "ineligible"} ELSE {"none"}

\* the required controls of a page: selects, comboboxes (input elements with
\* role combobox), checkboxes, radios (each of a group of its own), text
\* inputs and textareas; every one is empty or unchecked
Controls ==
    UNION {[kind : {Sweeps[k]}, marking : Markings,
            behaviour : ControlBehaviours(Sweeps[k]),
            options : ControlOptions(Sweeps[k])] :
             k \in 1..Len(Sweeps)}

ControlLists == UNION {[1..n -> Controls] : n \in 0..MaxControls}

\* lines 549, 574, 595, 610, 629: the controls the locator of sweep k matches.
\* The first four match their kind under either marking; the fifth,
\* "input[required], textarea[required], [aria-required='true']", matches
\* every required input element, comboboxes, checkboxes and radios included,
\* and every control marked with aria-required, selects included
Matches(k, control) ==
    IF k < 5 THEN control.kind = Sweeps[k]
    ELSE control.kind # "select" \/ control.marking = "aria"

\* the operations of a sweep that are in no inner try: in the select sweep
\* the listing and the reading of options (lines 558-561), in the radio sweep
\* the reading of the name (line 615); their exceptions reach the handler of
\* the sweep. Every operation of the other sweeps is in an inner try
LeavesSweep(k, control) ==
    \/ k = 1 /\ control.behaviour = "listing_raises"
    \/ k = 4 /\ control.behaviour = "name_raises"

\* lines 557-568: the select at position i holds a value after the first
\* sweep: the sweep reached it, listed its options, found one that passes the
\* guard of line 562 and select_option took it
SelectedByFirstSweep(i) ==
    /\ s_page[i].kind = "select"
    /\ i \in s_reached
    /\ s_page[i].options = "eligible"
    /\ s_page[i].behaviour \in {"fixed", "value_raises"}

\* the sweep k gets as far as calling a fix on the control at position i:
\*   1  select_option (line 564): the listing did not raise and an option
\*      passes the guard of line 562
\*   2  click and keys (lines 580-585)
\*   3  check (line 601), unless is_checked raised
\*   4  check (line 620), unless the name read raised
\*   5  fill("N/A") (line 649) when the type read is a text type or empty
\*      (line 641) and no value is read (lines 643-647): text inputs and
\*      comboboxes, and a select unless the first sweep gave it a value and
\*      input_value returns it now; never a checkbox or a radio
CallsFix(k, i) ==
    LET control == s_page[i]
    IN  CASE k = 1 -> /\ control.behaviour # "listing_raises"
                      /\ control.options = "eligible"
          [] k = 2 -> TRUE
          [] k = 3 -> control.behaviour # "value_raises"
          [] k = 4 -> control.behaviour # "name_raises"
          [] k = 5 -> \/ control.kind \in {"input", "combobox"}
                      \/ /\ control.kind = "select"
                         /\ ~(SelectedByFirstSweep(i) /\ control.behaviour = "fixed")

\* the next control that the locator of sweep k matches after position i
\* (0: none)
NextOfKind(k, i) ==
    LET later == {j \in (i + 1)..Len(s_page) : Matches(k, s_page[j])}
    IN  IF later = {} THEN 0 ELSE CHOOSE j \in later : \A m \in later : j <= m

\* lines 549-551, 574-576, 595-597, 610-613, 629-631: a sweep locates and
\* counts its controls; an exception of count() ends the sweep
SweepStart ==
    /\ s_pc \in 1..Len(Sweeps)
    /\ s_i = 0
    /\ \E counted \in BOOLEAN :
         LET first == NextOfKind(s_pc, 0)
         IN  /\ s_uncounted' = (s_uncounted \/ ~counted)
             /\ IF counted /\ first # 0
                THEN s_i' = first /\ UNCHANGED s_pc
                ELSE s_i' = 0 /\ s_pc' = s_pc + 1
    /\ UNCHANGED <<s_page, s_reached, s_attempted>>

\* lines 552-568, 577-589, 598-604, 614-623, 632-652: the sweep operates on
\* one control, which is attempted when the sweep calls its fix on it (a
\* select without an option that passes line 562 is reached by the first
\* sweep and not attempted); an exception outside the inner try ends the
\* sweep, any other one is swallowed and the sweep goes to its next control
SweepControl ==
    /\ s_pc \in 1..Len(Sweeps)
    /\ s_i # 0
    /\ s_reached' = s_reached \cup {s_i}
    /\ s_attempted' = IF CallsFix(s_pc, s_i) THEN s_attempted \cup {s_i}
                      ELSE s_attempted
    /\ LET next == NextOfKind(s_pc, s_i)
       IN  IF LeavesSweep(s_pc, s_page[s_i]) \/ next = 0
           THEN s_i' = 0 /\ s_pc' = s_pc + 1
           ELSE s_i' = next /\ UNCHANGED s_pc
    /\ UNCHANGED <<s_page, s_uncounted>>

(***************************************************************************)
(* analyze_screenshot_with_vision: from the model's response to a verdict  *)
(***************************************************************************)
MaxTokens == 3

\* the text of the model's message as a sequence of pieces:
\*   " "        white space
\*   "fence_json"  three backticks and the tag json
\*   "fence"       three backticks
\*   "T"        a JSON object with success true
\*   "F"        a JSON object with success false and one instruction
\*   "L"        a JSON value that is no object and holds no brace ([] or 1)
\*   "B"        text in braces that is not JSON
\*   "x"        prose without a brace
Tokens == {" ", "fence_json", "fence", "T", "F", "L", "B", "x"}

Contents == UNION {[1..n -> Tokens] : n \in 0..MaxTokens}

\* a response of the chat-completions endpoint: raises says that client.post,
\* response.json() or the indexing of the message raised
VisionResponses == [raises : BOOLEAN,
                    status_code : {200, 500},
                    choices : {"missing", "empty", "present"},
                    content : Contents]

\* no response at hand
NoResponse == [raises |-> FALSE, status_code |-> 200, choices |-> "missing", content |-> <<>>]

\* a test of the status that lets every response through
StatusAny(code) == TRUE

\* line 1051: response.status_code != 200 returns the failure verdict
StatusOk(code) == code = 200

\* str.strip()
RECURSIVE Strip(_)
Strip(text) ==
    IF text = <<>> THEN <<>>
    ELSE IF Head(text) = " " THEN Strip(Tail(text))
    ELSE IF text[Len(text)] = " " THEN Strip(SubSeq(text, 1, Len(text) - 1))
    ELSE text

\* lines 1068-1075: strip, drop a leading fence with its tag, drop a leading
\* fence (of a second tagged fence it leaves the tag), drop a trailing
\* fence, strip
StripFences(content) ==
    LET a == Strip(content)
        b == IF a # <<>> /\ Head(a) = "fence_json" THEN Tail(a) ELSE a
        c == IF b # <<>> /\ Head(b) = "fence" THEN Tail(b)
             ELSE IF b # <<>> /\ Head(b) = "fence_json" THEN <<"x">> \o Tail(b)
             ELSE b
        d == IF c # <<>> /\ c[Len(c)] = "fence" THEN SubSeq(c, 1, Len(c) - 1) ELSE c
    IN  Strip(d)

\* json.loads: one JSON value, white space around it allowed
json_loads(text) ==
    LET body == SelectSeq(text, LAMBDA t : t # " ")
    IN  IF Len(body) = 1 /\ body[1] \in {"T", "F", "L"} THEN body[1] ELSE "JSONDecodeError"

\* line 1085: the regular expression matches from the first opening brace
\* to the last closing one (<<>>: no match)
BraceMatch(text) ==
    LET braces == {i \in 1..Len(text) : text[i] \in {"T", "F", "B"}}
    IN  IF braces = {} THEN <<>>
        ELSE SubSeq(text, CHOOSE i \in braces : \A j \in braces : i <= j,
                          CHOOSE i \in braces : \A j \in braces : i >= j)

\* the verdict that a parsed JSON object is
ParsedVerdict(value) ==
    IF value = "T" THEN [success |-> TRUE, reason |-> "model", instructions |-> <<>>]
    ELSE [success |-> FALSE, reason |-> "model", instructions |-> <<"fill">>]

\* lines 990-1112, the body of the try: the verdict it returns, or raised
VisionBody(response) ==
    IF response.raises THEN [raised |-> TRUE, verdict |-> NoVerdict]
    ELSE IF ~StatusOk(response.status_code) THEN [raised |-> FALSE, verdict |-> FailureVerdict]
    ELSE IF response.choices # "present" THEN [raised |-> FALSE, verdict |-> FailureVerdict]
    ELSE LET content_clean == StripFences(response.content)
             first == json_loads(content_clean)
             json_match == BraceMatch(content_clean)
             value == IF first # "JSONDecodeError" THEN first
                      ELSE IF json_match = <<>> THEN "no match"
                      ELSE json_loads(json_match)
         IN  IF value = "no match" THEN [raised |-> FALSE, verdict |-> FailureVerdict]
             \* json.loads of the match raises in the handler of line 1082;
             \* result.get of line 1092 raises on a value that is no object
             ELSE IF value \in {"JSONDecodeError", "L"} THEN [raised |-> TRUE, verdict |-> NoVerdict]
             ELSE [raised |-> FALSE, verdict |-> ParsedVerdict(value)]

\* lines 986-988 and 1114-1116: without a credential the fixed verdict; every
\* exception of the body becomes the failure verdict
VisionOutcome(openai_key, response) ==
    IF ~openai_key THEN [raised |-> FALSE, verdict |-> NoKeyVerdict]
    ELSE IF VisionBody(response).raised THEN [raised |-> FALSE, verdict |-> FailureVerdict]
    ELSE VisionBody(response)

\* the call returns
VisionCall ==
    /\ v_pc = "call"
    /\ v_ret' = VisionOutcome(v_key, v_response).verdict
    /\ v_raised' = VisionOutcome(v_key, v_response).raised
    /\ v_pc' = "returned"
    /\ UNCHANGED <<v_key, v_response>>

(***************************************************************************)
(* solve_captcha: concurrent calls on the one event-loop thread            *)
(***************************************************************************)
MaxRuns == 3

\* the requests served at the same time; each awaits apply_to_job_async
\* (line 2087) on the event loop of the server
ConcurrentRuns == 1..MaxRuns

\* a call is suspended at an await (the loop may resume it or any other
\* call), inside the solver call, or has returned:
\*   ready            not started
\*   await_hcaptcha   await page.evaluate of line 803
\*   await_recaptcha  await page.evaluate of line 835
\*   in_solver        solver.hcaptcha / solver.recaptcha of lines 874-883
\*   await_inject     await page.evaluate of line 902 or 936
\*   await_sleep      await asyncio.sleep(3) of line 961
\*   returned
SuspendedAt == {"ready", "await_hcaptcha", "await_recaptcha", "await_inject", "await_sleep"}

\* lines 783-803: the loop starts the call, which runs to its first await
CaptchaStart(r) ==
    /\ e_thread = 0
    /\ e_pc[r] = "ready"
    /\ e_pc' = [e_pc EXCEPT ![r] = "await_hcaptcha"]
    /\ UNCHANGED e_thread

\* lines 823-835 and 851-874: resumed with the answer of the hCaptcha probe,
\* the call
\*   probes    found nothing (or the probe raised): goes on to the reCAPTCHA
\*             probe and suspends there
\*   returns   found an hCaptcha without a site key (captcha_type is set, the
\*             second probe is skipped, line 851 returns False), or with one
\*             while TWOCAPTCHA_API_KEY is not set (line 863)
\*   solves    found an hCaptcha and enters the solver call, which is not
\*             awaited: the thread stays with this call
AfterHcaptchaProbe(r) ==
    /\ e_thread = 0
    /\ e_pc[r] = "await_hcaptcha"
    /\ \E answer \in {"probes", "returns", "solves"} :
         CASE answer = "probes" ->
                e_pc' = [e_pc EXCEPT ![r] = "await_recaptcha"] /\ UNCHANGED e_thread
           [] answer = "returns" ->
                e_pc' = [e_pc EXCEPT ![r] = "returned"] /\ UNCHANGED e_thread
           [] answer = "solves" ->
                e_pc' = [e_pc EXCEPT ![r] = "in_solver"] /\ e_thread' = r

\* lines 844-883: resumed with the reCAPTCHA probe's answer, the call returns
\* False (no CAPTCHA, no key) or enters the solver call
AfterRecaptchaProbe(r) ==
    /\ e_thread = 0
    /\ e_pc[r] = "await_recaptcha"
    /\ \E found \in BOOLEAN :
         IF found
         THEN e_pc' = [e_pc EXCEPT ![r] = "in_solver"] /\ e_thread' = r
         ELSE e_pc' = [e_pc EXCEPT ![r] = "returned"] /\ UNCHANGED e_thread

\* lines 885-902 and 964-966: the solving service answers; with a token the
\* call goes on to the await of the injection and gives the thread back,
\* without one (or on an exception) it returns False
SolverReturns(r) ==
    /\ e_thread = r
    /\ e_pc[r] = "in_solver"
    /\ \E token \in BOOLEAN :
         e_pc' = [e_pc EXCEPT ![r] = IF token THEN "await_inject" ELSE "returned"]
    /\ e_thread' = 0

\* lines 902-961: resumed after the injection, the call suspends again in the
\* sleep; when the injection raised it returns False (line 957)
AfterInject(r) ==
    /\ e_thread = 0
    /\ e_pc[r] = "await_inject"
    /\ \E injected \in BOOLEAN :
         e_pc' = [e_pc EXCEPT ![r] = IF injected THEN "await_sleep" ELSE "returned"]
    /\ UNCHANGED e_thread

\* lines 961-962: resumed after the sleep, the call returns True
AfterSleep(r) ==
    /\ e_thread = 0
    /\ e_pc[r] = "await_sleep"
    /\ e_pc' = [e_pc EXCEPT ![r] = "returned"]
    /\ UNCHANGED e_thread

\* a step of the call r
CaptchaRunStep(r) ==
    \/ CaptchaStart(r)
    \/ AfterHcaptchaProbe(r)
    \/ AfterRecaptchaProbe(r)
    \/ SolverReturns(r)
    \/ AfterInject(r)
    \/ AfterSleep(r)

(***************************************************************************)
(* Specifications                                                          *)
(***************************************************************************)
Requests == [job_url : FieldValues("https://job"),
             email : FieldValues("me@mail"),
             resume : Resumes,
             plan_only : BOOLEAN,
             allow_submit : BOOLEAN,
             openai_api_key : BOOLEAN,
             brightdata : BOOLEAN]

RunIdle ==
    /\ pc = "start"
    /\ use_brightdata = FALSE
    /\ browser = "none"
    /\ sessions = {}
    /\ attempt = 0
    /\ nav_idx = 0
    /\ clicked = 0
    /\ retry_count = 0
    /\ captcha_attempt = 0
    /\ ok = FALSE
    /\ status = "unknown"
    /\ app_state = ApplicationState
    /\ screenshot_b64 = FALSE
    /\ basic_success = FALSE
    /\ vision_result = NoVerdict
    /\ result = NoResult
    /\ trace = EmptyTrace

DetectIdle ==
    /\ d_pc = "idle"
    /\ d_html = {}
    /\ d_behaviour = "timeout"
    /\ d_new = {}
    /\ d_ret = FALSE

RetryIdle ==
    /\ r_pc = "idle"
    /\ r_type = "captcha"
    /\ r_attempt = 0
    /\ r_ret = FALSE
    /\ r_slept = 0
    /\ r_refused = -1

InterpIdle ==
    /\ i_pc = "idle"
    /\ i_instructions = [kind |-> "none", items |-> <<>>]
    /\ i_next = 0
    /\ executed_count = 0
    /\ i_ret = FALSE
    /\ i_page_failed = FALSE

UploadIdle ==
    /\ u_pc = [run \in Runs |-> "idle"]
    /\ u_pdf_bytes = [run \in Runs |-> "none"]
    /\ u_uploaded = [run \in Runs |-> "none"]
    /\ tmp_file = "none"

FixIdle ==
    /\ a_pc = "idle"
    /\ a_options = <<>>
    /\ a_start = ""
    /\ a_value = ""
    /\ current = ""
    /\ a_next = 0
    /\ fixed = 0
    /\ problems = {}

TierIdle ==
    /\ t_pc = "idle"
    /\ t_env = NoTiers
    /\ tried = <<>>
    /\ t_ret = FALSE

FillIdle ==
    /\ f_pc = "idle"
    /\ f_i = 0
    /\ f_name = ""
    /\ f_present = {}
    /\ filled_fields = {}
    /\ f_issues = <<>>
    /\ f_ok = {}
    /\ f_again = {}
    /\ f_failed = {}

PlatformIdle ==
    /\ p_pc = "idle"
    /\ p_url = {}
    /\ p_html = {}
    /\ p_raises = FALSE
    /\ p_ret = NoPlatform

RadioIdle ==
    /\ rd_pc = "idle"
    /\ radios = <<>>
    /\ rd_start = {}
    /\ rd_checked = {}
    /\ rd_i = 0
    /\ seen = {}
    /\ rd_fixed = {}

SweepIdle ==
    /\ s_pc = 0
    /\ s_page = <<>>
    /\ s_i = 0
    /\ s_reached = {}
    /\ s_attempted = {}
    /\ s_uncounted = FALSE

VisionIdle ==
    /\ v_pc = "idle"
    /\ v_key = FALSE
    /\ v_response = NoResponse
    /\ v_ret = NoVerdict
    /\ v_raised = FALSE

LoopIdle ==
    /\ e_pc = <<>>
    /\ e_thread = 0

\* the request of the specifications that model one call on its own
PlainRequest ==
    [job_url |-> "https://job", email |-> "me@mail", resume |-> "none",
     plan_only |-> FALSE, allow_submit |-> TRUE,
     openai_api_key |-> FALSE, brightdata |-> FALSE]

\* a run of apply_to_job_async on any request
Init ==
    /\ request \in Requests
    /\ user_data = request
    /\ RunIdle
    /\ LoopIdle
    /\ VisionIdle
    /\ SweepIdle
    /\ RadioIdle
    /\ PlatformIdle
    /\ FillIdle
    /\ TierIdle
    /\ FixIdle
    /\ DetectIdle
    /\ RetryIdle
    /\ InterpIdle
    /\ UploadIdle

Next ==
    \/ Precheck
    \/ ConnectRemote
    \/ RemoteSetup
    \/ LaunchLocal
    \/ Navigate
    \/ DetectPlatform
    \/ OpenForm
    \/ FillForm
    \/ Branch
    \/ LoopHead
    \/ CaptchaAttempt
    \/ WizardHop
    \/ SubmitStep
    \/ PostShot
    \/ DetectOutcome
    \/ Vision
    \/ Decide
    \/ Interpret
    \/ AfterLoop
    \/ FinalShot
    \/ Close
    \/ Finish

Spec == Init /\ [][Next]_vars

\* detect_success called on any page
InitDetect ==
    /\ request = PlainRequest
    /\ user_data = request
    /\ RunIdle
    /\ LoopIdle
    /\ VisionIdle
    /\ SweepIdle
    /\ RadioIdle
    /\ PlatformIdle
    /\ FillIdle
    /\ TierIdle
    /\ FixIdle
    /\ RetryIdle
    /\ InterpIdle
    /\ UploadIdle
    /\ d_pc = "call"
    /\ d_html \in Pages
    /\ d_behaviour \in PageBehaviours
    /\ d_new \in Pages
    /\ d_ret = FALSE

NextDetect == DetectCall /\ UNCHANGED <<runVars, retryVars, interpVars, uploadVars, fixVars, tierVars, fillVars, platVars, radioVars, sweepVars, visionVars, loopVars>>

SpecDetect == InitDetect /\ [][NextDetect]_vars

\* should_retry called again and again for one error category
InitRetry ==
    /\ request = PlainRequest
    /\ user_data = request
    /\ RunIdle
    /\ LoopIdle
    /\ VisionIdle
    /\ SweepIdle
    /\ RadioIdle
    /\ PlatformIdle
    /\ FillIdle
    /\ TierIdle
    /\ FixIdle
    /\ DetectIdle
    /\ InterpIdle
    /\ UploadIdle
    /\ r_pc = "idle"
    /\ r_type \in ErrorTypes
    /\ r_attempt = 0
    /\ r_ret = FALSE
    /\ r_slept = 0
    /\ r_refused = -1

RetryCallStep == RetryCall /\ UNCHANGED <<runVars, detVars, interpVars, uploadVars, fixVars, tierVars, fillVars, platVars, radioVars, sweepVars, visionVars, loopVars>>

RetryReturnStep == RetryReturn /\ UNCHANGED <<runVars, detVars, interpVars, uploadVars, fixVars, tierVars, fillVars, platVars, radioVars, sweepVars, visionVars, loopVars>>

NextRetry ==
    \/ RetryCallStep
    \/ RetryReturnStep

SpecRetry == InitRetry /\ [][NextRetry]_vars

\* execute_vision_instructions called on any argument
InitInterp ==
    /\ request = PlainRequest
    /\ user_data = request
    /\ RunIdle
    /\ LoopIdle
    /\ VisionIdle
    /\ SweepIdle
    /\ RadioIdle
    /\ PlatformIdle
    /\ FillIdle
    /\ TierIdle
    /\ FixIdle
    /\ DetectIdle
    /\ RetryIdle
    /\ UploadIdle
    /\ i_pc = "call"
    /\ i_instructions \in InstructionArgs
    /\ i_next = 0
    /\ executed_count = 0
    /\ i_ret = FALSE
    /\ i_page_failed = FALSE

InterpEnterStep == InterpEnter /\ UNCHANGED <<runVars, detVars, retryVars, uploadVars, fixVars, tierVars, fillVars, platVars, radioVars, sweepVars, visionVars, loopVars>>

InterpLoopStep == InterpStep /\ UNCHANGED <<runVars, detVars, retryVars, uploadVars, fixVars, tierVars, fillVars, platVars, radioVars, sweepVars, visionVars, loopVars>>

InterpReturnStep == InterpReturn /\ UNCHANGED <<runVars, detVars, retryVars, uploadVars, fixVars, tierVars, fillVars, platVars, radioVars, sweepVars, visionVars, loopVars>>

NextInterp ==
    \/ InterpEnterStep
    \/ InterpLoopStep
    \/ InterpReturnStep

SpecInterp == InitInterp /\ [][NextInterp]_vars

\* two runs of one event loop reach upload_resume, each with its own resume;
\* the file may hold what an earlier run left in it
InitUpload ==
    /\ request = PlainRequest
    /\ user_data = request
    /\ RunIdle
    /\ LoopIdle
    /\ VisionIdle
    /\ SweepIdle
    /\ RadioIdle
    /\ PlatformIdle
    /\ FillIdle
    /\ TierIdle
    /\ FixIdle
    /\ DetectIdle
    /\ RetryIdle
    /\ InterpIdle
    /\ u_pc = [run \in Runs |-> "call"]
    /\ u_pdf_bytes \in [Runs -> {"none", "resume_1", "resume_2"}]
    /\ \A run \in Runs : u_pdf_bytes[run] \in ResumeBytes(run)
    /\ u_uploaded = [run \in Runs |-> "none"]
    /\ tmp_file \in {"none", "resume_0"}

UploadWriteStep ==
    \E run \in Runs : UploadWrite(run) /\ UNCHANGED <<runVars, detVars, retryVars, interpVars, fixVars, tierVars, fillVars, platVars, radioVars, sweepVars, visionVars, loopVars>>

UploadCountStep ==
    \E run \in Runs : UploadCount(run) /\ UNCHANGED <<runVars, detVars, retryVars, interpVars, fixVars, tierVars, fillVars, platVars, radioVars, sweepVars, visionVars, loopVars>>

UploadCountAgainStep ==
    \E run \in Runs :
        UploadCountAgain(run) /\ UNCHANGED <<runVars, detVars, retryVars, interpVars, fixVars, tierVars, fillVars, platVars, radioVars, sweepVars, visionVars, loopVars>>

UploadCountAnyStep ==
    \E run \in Runs :
        UploadCountAny(run) /\ UNCHANGED <<runVars, detVars, retryVars, interpVars, fixVars, tierVars, fillVars, platVars, radioVars, sweepVars, visionVars, loopVars>>

UploadSetInputFilesStep ==
    \E run \in Runs :
        UploadSetInputFiles(run) /\ UNCHANGED <<runVars, detVars, retryVars, interpVars, fixVars, tierVars, fillVars, platVars, radioVars, sweepVars, visionVars, loopVars>>

NextUpload ==
    \/ UploadWriteStep
    \/ UploadCountStep
    \/ UploadCountAgainStep
    \/ UploadCountAnyStep
    \/ UploadSetInputFilesStep

SpecUpload == InitUpload /\ [][NextUpload]_vars

\* autofix_required_fields, then check_required_errors, on a page with one
\* required select that holds the value of one of its options
InitAutofix ==
    /\ request = PlainRequest
    /\ user_data = request
    /\ RunIdle
    /\ LoopIdle
    /\ VisionIdle
    /\ SweepIdle
    /\ RadioIdle
    /\ PlatformIdle
    /\ FillIdle
    /\ TierIdle
    /\ DetectIdle
    /\ RetryIdle
    /\ InterpIdle
    /\ UploadIdle
    /\ a_pc = "call"
    /\ a_options \in OptionLists
    /\ a_start \in {""} \cup {a_options[n].value : n \in 1..Len(a_options)}
    /\ a_value = a_start
    /\ current = ""
    /\ a_next = 0
    /\ fixed = 0
    /\ problems = {}

AutofixCallStep == AutofixCall /\ UNCHANGED <<runVars, detVars, retryVars, interpVars, uploadVars, tierVars, fillVars, platVars, radioVars, sweepVars, visionVars, loopVars>>

AutofixOptionStep ==
    AutofixOption /\ UNCHANGED <<runVars, detVars, retryVars, interpVars, uploadVars, tierVars, fillVars, platVars, radioVars, sweepVars, visionVars, loopVars>>

CheckRequiredStep ==
    check_required_errors /\ UNCHANGED <<runVars, detVars, retryVars, interpVars, uploadVars, tierVars, fillVars, platVars, radioVars, sweepVars, visionVars, loopVars>>

NextAutofix ==
    \/ AutofixCallStep
    \/ AutofixOptionStep
    \/ CheckRequiredStep

SpecAutofix == InitAutofix /\ [][NextAutofix]_vars

\* solve_captcha_brightdata called with or without the remote browser, on
\* any behaviour of the tiers
InitTiers ==
    /\ request = PlainRequest
    /\ user_data = request
    /\ RunIdle
    /\ LoopIdle
    /\ VisionIdle
    /\ SweepIdle
    /\ RadioIdle
    /\ PlatformIdle
    /\ FillIdle
    /\ DetectIdle
    /\ RetryIdle
    /\ InterpIdle
    /\ UploadIdle
    /\ FixIdle
    /\ t_pc = "call"
    /\ t_env \in TierEnvs
    /\ tried = <<>>
    /\ t_ret = FALSE

TierEnterStep == TierEnter /\ UNCHANGED <<runVars, detVars, retryVars, interpVars, uploadVars, fixVars, fillVars, platVars, radioVars, sweepVars, visionVars, loopVars>>

TierManagedStep == TierManaged /\ UNCHANGED <<runVars, detVars, retryVars, interpVars, uploadVars, fixVars, fillVars, platVars, radioVars, sweepVars, visionVars, loopVars>>

TierImprovedStep == TierImproved /\ UNCHANGED <<runVars, detVars, retryVars, interpVars, uploadVars, fixVars, fillVars, platVars, radioVars, sweepVars, visionVars, loopVars>>

TierPaidStep == TierPaid /\ UNCHANGED <<runVars, detVars, retryVars, interpVars, uploadVars, fixVars, fillVars, platVars, radioVars, sweepVars, visionVars, loopVars>>

TierTextStep == TierText /\ UNCHANGED <<runVars, detVars, retryVars, interpVars, uploadVars, fixVars, fillVars, platVars, radioVars, sweepVars, visionVars, loopVars>>

TierAudioStep == TierAudio /\ UNCHANGED <<runVars, detVars, retryVars, interpVars, uploadVars, fixVars, fillVars, platVars, radioVars, sweepVars, visionVars, loopVars>>

NextTiers ==
    \/ TierEnterStep
    \/ TierManagedStep
    \/ TierImprovedStep
    \/ TierPaidStep
    \/ TierTextStep
    \/ TierAudioStep

SpecTiers == InitTiers /\ [][NextTiers]_vars

\* the filling phase of a run whose request holds an email and any of the
\* other fields
InitFill ==
    /\ request = PlainRequest
    /\ user_data = request
    /\ RunIdle
    /\ LoopIdle
    /\ VisionIdle
    /\ SweepIdle
    /\ RadioIdle
    /\ PlatformIdle
    /\ DetectIdle
    /\ RetryIdle
    /\ InterpIdle
    /\ UploadIdle
    /\ FixIdle
    /\ TierIdle
    /\ f_pc = "resume"
    /\ f_i = 0
    /\ f_name \in NameValues
    /\ f_present \in {present \in SUBSET OtherFields : "email" \in present}
    /\ filled_fields = {}
    /\ f_issues = <<>>
    /\ f_ok = {}
    /\ f_again = {}
    /\ f_failed = {}

FillResumeStep == FillResume /\ UNCHANGED <<runVars, detVars, retryVars, interpVars, uploadVars, fixVars, tierVars, platVars, radioVars, sweepVars, visionVars, loopVars>>

FillByLabelsStep == FillByLabels /\ UNCHANGED <<runVars, detVars, retryVars, interpVars, uploadVars, fixVars, tierVars, platVars, radioVars, sweepVars, visionVars, loopVars>>

FillNameStep == FillName /\ UNCHANGED <<runVars, detVars, retryVars, interpVars, uploadVars, fixVars, tierVars, platVars, radioVars, sweepVars, visionVars, loopVars>>

FillContactStep == FillContact /\ UNCHANGED <<runVars, detVars, retryVars, interpVars, uploadVars, fixVars, tierVars, platVars, radioVars, sweepVars, visionVars, loopVars>>

FillLocationStep == FillLocation /\ UNCHANGED <<runVars, detVars, retryVars, interpVars, uploadVars, fixVars, tierVars, platVars, radioVars, sweepVars, visionVars, loopVars>>

FillCompanyStep == FillCompany /\ UNCHANGED <<runVars, detVars, retryVars, interpVars, uploadVars, fixVars, tierVars, platVars, radioVars, sweepVars, visionVars, loopVars>>

FillCurrentLocationStep == FillCurrentLocation /\ UNCHANGED <<runVars, detVars, retryVars, interpVars, uploadVars, fixVars, tierVars, platVars, radioVars, sweepVars, visionVars, loopVars>>

FillRestStep == FillRest /\ UNCHANGED <<runVars, detVars, retryVars, interpVars, uploadVars, fixVars, tierVars, platVars, radioVars, sweepVars, visionVars, loopVars>>

NextFill ==
    \/ FillResumeStep
    \/ FillByLabelsStep
    \/ FillNameStep
    \/ FillContactStep
    \/ FillLocationStep
    \/ FillCompanyStep
    \/ FillCurrentLocationStep
    \/ FillRestStep

SpecFill == InitFill /\ [][NextFill]_vars

\* detect_application_platform called on any page
InitPlatform ==
    /\ request = PlainRequest
    /\ user_data = request
    /\ RunIdle
    /\ LoopIdle
    /\ VisionIdle
    /\ SweepIdle
    /\ RadioIdle
    /\ DetectIdle
    /\ RetryIdle
    /\ InterpIdle
    /\ UploadIdle
    /\ FixIdle
    /\ TierIdle
    /\ FillIdle
    /\ p_pc = "call"
    /\ p_url \in SUBSET PlatformDomains
    /\ p_html \in SUBSET PlatformMarkers
    /\ p_raises \in BOOLEAN
    /\ p_ret = NoPlatform

NextPlatform ==
    PlatformCall /\ UNCHANGED <<runVars, detVars, retryVars, interpVars, uploadVars, fixVars, tierVars, fillVars, radioVars, sweepVars, visionVars, loopVars>>

SpecPlatform == InitPlatform /\ [][NextPlatform]_vars

\* the radio sweep on any page with required radios, at most one of each
\* group checked
InitRadio ==
    /\ request = PlainRequest
    /\ user_data = request
    /\ RunIdle
    /\ LoopIdle
    /\ VisionIdle
    /\ SweepIdle
    /\ DetectIdle
    /\ RetryIdle
    /\ InterpIdle
    /\ UploadIdle
    /\ FixIdle
    /\ TierIdle
    /\ FillIdle
    /\ PlatformIdle
    /\ rd_pc = "call"
    /\ radios \in RadioLists
    /\ rd_start \in {checked \in SUBSET (1..Len(radios)) : OnePerGroup(radios, checked)}
    /\ rd_checked = rd_start
    /\ rd_i = 0
    /\ seen = {}
    /\ rd_fixed = {}

RadioSweepStartStep ==
    RadioSweepStart /\ UNCHANGED <<runVars, detVars, retryVars, interpVars, uploadVars, fixVars, tierVars, fillVars, platVars, sweepVars, visionVars, loopVars>>

RadioSweepStepStep ==
    RadioSweepStep /\ UNCHANGED <<runVars, detVars, retryVars, interpVars, uploadVars, fixVars, tierVars, fillVars, platVars, sweepVars, visionVars, loopVars>>

NextRadio ==
    \/ RadioSweepStartStep
    \/ RadioSweepStepStep

SpecRadio == InitRadio /\ [][NextRadio]_vars

\* autofix_required_fields called on any page of required controls
InitSweeps ==
    /\ request = PlainRequest
    /\ user_data = request
    /\ RunIdle
    /\ LoopIdle
    /\ VisionIdle
    /\ DetectIdle
    /\ RetryIdle
    /\ InterpIdle
    /\ UploadIdle
    /\ FixIdle
    /\ TierIdle
    /\ FillIdle
    /\ PlatformIdle
    /\ RadioIdle
    /\ s_pc = 1
    /\ s_page \in ControlLists
    /\ s_i = 0
    /\ s_reached = {}
    /\ s_attempted = {}
    /\ s_uncounted = FALSE

SweepStartStep ==
    SweepStart /\ UNCHANGED <<runVars, detVars, retryVars, interpVars, uploadVars, fixVars, tierVars, fillVars, platVars, radioVars, visionVars, loopVars>>

SweepControlStep ==
    SweepControl /\ UNCHANGED <<runVars, detVars, retryVars, interpVars, uploadVars, fixVars, tierVars, fillVars, platVars, radioVars, visionVars, loopVars>>

NextSweeps ==
    \/ SweepStartStep
    \/ SweepControlStep

SpecSweeps == InitSweeps /\ [][NextSweeps]_vars

\* analyze_screenshot_with_vision called with or without a credential, the
\* model answering anything
InitVision ==
    /\ request = PlainRequest
    /\ user_data = request
    /\ RunIdle
    /\ LoopIdle
    /\ DetectIdle
    /\ RetryIdle
    /\ InterpIdle
    /\ UploadIdle
    /\ FixIdle
    /\ TierIdle
    /\ FillIdle
    /\ PlatformIdle
    /\ RadioIdle
    /\ SweepIdle
    /\ v_pc = "call"
    /\ v_key \in BOOLEAN
    /\ v_response \in VisionResponses
    /\ v_ret = NoVerdict
    /\ v_raised = FALSE

NextVision ==
    VisionCall /\ UNCHANGED <<runVars, detVars, retryVars, interpVars, uploadVars, fixVars, tierVars, fillVars, platVars, radioVars, sweepVars, loopVars>>

SpecVision == InitVision /\ [][NextVision]_vars

\* MaxRuns requests are being served and each is about to call solve_captcha
InitLoop ==
    /\ request = PlainRequest
    /\ user_data = request
    /\ RunIdle
    /\ DetectIdle
    /\ RetryIdle
    /\ InterpIdle
    /\ UploadIdle
    /\ FixIdle
    /\ TierIdle
    /\ FillIdle
    /\ PlatformIdle
    /\ RadioIdle
    /\ SweepIdle
    /\ VisionIdle
    /\ e_pc = [r \in ConcurrentRuns |-> "ready"]
    /\ e_thread = 0

CaptchaStartStep ==
    (\E r \in ConcurrentRuns : CaptchaStart(r)) /\ UNCHANGED <<runVars, detVars, retryVars, interpVars, uploadVars, fixVars, tierVars, fillVars, platVars, radioVars, sweepVars, visionVars>>

AfterHcaptchaProbeStep ==
    (\E r \in ConcurrentRuns : AfterHcaptchaProbe(r)) /\ UNCHANGED <<runVars, detVars, retryVars, interpVars, uploadVars, fixVars, tierVars, fillVars, platVars, radioVars, sweepVars, visionVars>>

AfterRecaptchaProbeStep ==
    (\E r \in ConcurrentRuns : AfterRecaptchaProbe(r)) /\ UNCHANGED <<runVars, detVars, retryVars, interpVars, uploadVars, fixVars, tierVars, fillVars, platVars, radioVars, sweepVars, visionVars>>

SolverReturnsStep ==
    (\E r \in ConcurrentRuns : SolverReturns(r)) /\ UNCHANGED <<runVars, detVars, retryVars, interpVars, uploadVars, fixVars, tierVars, fillVars, platVars, radioVars, sweepVars, visionVars>>

AfterInjectStep ==
    (\E r \in ConcurrentRuns : AfterInject(r)) /\ UNCHANGED <<runVars, detVars, retryVars, interpVars, uploadVars, fixVars, tierVars, fillVars, platVars, radioVars, sweepVars, visionVars>>

AfterSleepStep ==
    (\E r \in ConcurrentRuns : AfterSleep(r)) /\ UNCHANGED <<runVars, detVars, retryVars, interpVars, uploadVars, fixVars, tierVars, fillVars, platVars, radioVars, sweepVars, visionVars>>

NextLoop ==
    \/ CaptchaStartStep
    \/ AfterHcaptchaProbeStep
    \/ AfterRecaptchaProbeStep
    \/ SolverReturnsStep
    \/ AfterInjectStep
    \/ AfterSleepStep

SpecLoop == InitLoop /\ [][NextLoop]_vars

(***************************************************************************)
(* Properties                                                              *)
(***************************************************************************)
\* the status values the interface documents
Statuses == {"missing_fields", "planned_only", "awaiting_consent", "submitted",
             "not_confirmed", "max_retries_reached", "error"}

\* no browser session was opened and no navigation was attempted
NoBrowser == trace.created = 0 /\ sessions = {} /\ ~trace.navigated

\* positions inside the loop
LoopPcs == {"loop_head", "captcha", "wizard", "submit", "post_shot", "detect", "vision",
            "decide", "interpret"}

\* C1 (as stated): whenever job_url or email is missing from the request
\* (absent or empty), whatever the resume holds, the run opens no browser
\* session, navigates nowhere and returns status missing_fields.
C1_MissingInRequest ==
    (~Truthy(request.job_url) \/ ~Truthy(request.email)) =>
        /\ NoBrowser
        /\ Returned => result.status = "missing_fields"

\* C1 (amended): whenever job_url is absent or empty, or email is empty, or
\* email is absent and the resume yields no e-mail address, the run opens no
\* browser session, navigates nowhere and returns status missing_fields.
C1_MissingAfterMerge ==
    (\/ request.job_url \in {NoKey, ""}
     \/ request.email = ""
     \/ request.email = NoKey /\ request.resume # "cv_email") =>
        /\ NoBrowser
        /\ pc \in {"start", "done"}
        /\ Returned => result.status = "missing_fields" /\ result.ok = FALSE

\* C1 witness: a request without the email key and with a resume that yields
\* no address has been answered with missing_fields
C1_Witness ==
    /\ Returned
    /\ request.email = NoKey
    /\ request.resume = "cv_plain"
    /\ request.job_url = "https://job"
    /\ result.status = "missing_fields"

\* C2: every returned result holds the outcome status, the platform, the
\* elapsed time, the evidence bundle, the state snapshot and the metrics.
C2_FullResult ==
    Returned =>
        {"status", "platform", "elapsed_s", "evidence", "state", "metrics"}
            \subseteq DOMAIN result

\* C3: once an exception has been raised in a run after the precondition
\* check, the run goes on to return a result with every key of the final
\* dict, status error and ok = false.
C3_FatalIsStructured ==
    trace.raised =>
        /\ pc \in {"finish", "done"}
        /\ status = "error" /\ ~ok
        /\ Returned => /\ DOMAIN result = FullResultKeys
                       /\ result.status = "error"
                       /\ result.ok = FALSE

\* C3 witness: a run whose loop had accepted the outcome, and whose browser
\* close then raised, has returned
C3_Witness ==
    /\ Returned
    /\ trace.raised
    /\ trace.decided > 0
    /\ result.status = "error"

\* C4: the status of every returned result is one of the seven documented
\* values.
C4_StatusEnum == Returned => result.status \in Statuses

\* C5: the loop runs at most 5 iterations and the submit step at most 5
\* times in a run.
C5_LoopBound == retry_count <= 5 /\ trace.submit_steps <= 5

\* C5 witness: the fifth iteration has run its submit step
C5_Witness == retry_count = 5 /\ trace.submit_steps = 5

\* C6: with plan_only set nothing of the loop ever happens (no iteration, no
\* CAPTCHA attempt, no submit step or click, no outcome check, no vision
\* call), the status is planned_only from the end of the filling phase on,
\* and a run that raised no fatal exception returns planned_only.
C6_PlanOnlySkipsLoop ==
    request.plan_only =>
        /\ retry_count = 0
        /\ ~trace.captcha_tried
        /\ trace.submit_steps = 0 /\ ~trace.submit_clicked
        /\ trace.interp_calls = 0 /\ ~trace.interp_submit
        /\ trace.detect_calls = 0 /\ trace.vision_calls = 0
        /\ pc \notin LoopPcs \cup {"after_loop"}
        /\ (trace.fill_done /\ pc \in {"final_shot", "close"}) => status = "planned_only"
        /\ (Returned /\ trace.fill_done /\ ~trace.raised) =>
               result.status = "planned_only"

\* C6 witness: a plan_only run that filled the form has returned planned_only
C6_Witness ==
    /\ Returned
    /\ request.plan_only
    /\ trace.fill_done
    /\ result.status = "planned_only"

\* C7: with allow_submit false and plan_only false, once the submit step has
\* run (and no fatal exception was raised) the loop is over, the submit step
\* ran once, and the run returns awaiting_consent.
C7_AwaitingConsent ==
    (~request.allow_submit /\ ~request.plan_only
        /\ trace.submit_steps >= 1 /\ ~trace.raised) =>
        /\ pc \notin LoopPcs
        /\ trace.submit_steps = 1
        /\ Returned => result.status = "awaiting_consent"

\* C8: with allow_submit false no submit button is clicked in the run,
\* neither by the submit step nor by a replayed corrective instruction.
C8_NoSubmitClick ==
    ~request.allow_submit => ~trace.submit_clicked /\ ~trace.interp_submit

\* C9: when the outcome check of the current iteration saw the heuristic
\* detector or the vision verdict report success, the loop has ended with
\* ok = true and status submitted, and the interpreter was not called in
\* that iteration.
C9_AcceptedEndsLoop ==
    (/\ retry_count > 0
     /\ trace.decided = retry_count
     /\ basic_success \/ vision_result.success) =>
        /\ pc = "after_loop"
        /\ ok /\ status = "submitted"
        /\ trace.last_interp < retry_count

\* C9 witness: the loop has ended on the heuristic signal alone
C9_Witness ==
    /\ pc = "after_loop"
    /\ trace.decided = retry_count
    /\ basic_success /\ ~vision_result.success
    /\ ok /\ status = "submitted"

\* C10: detect_success returns failure whenever a negative phrase is on a
\* page it scans, at the first scan or at the re-scan after a URL change.
C10_NegativeWins ==
    (/\ d_pc = "returned"
     /\ \/ AnyHit(error_hits, d_html)
        \/ Rescanned(d_html, d_behaviour) /\ AnyHit(error_hits, d_new)) =>
        d_ret = FALSE

\* C11: when the page read after the submit step holds the text
\* "application received", the run returns status submitted, with or without
\* a vision credential and whatever the vision verdict was.
C11_ReceivedIsSubmitted ==
    (Returned /\ trace.page_received) => result.status = "submitted"

\* C12: in a run without a vision credential every call of
\* analyze_screenshot_with_vision returns exactly {success: false, reason:
\* "API key not provided", instructions: []} and no request is posted to the
\* vision model.
C12_NoKeyVerdict ==
    ~request.openai_api_key =>
        /\ ~trace.vision_posts
        /\ (pc = "decide") => vision_result = NoKeyVerdict

\* C12 witness: a run without a credential has called the vision analysis
C12_Witness ==
    /\ ~request.openai_api_key
    /\ pc = "decide"
    /\ trace.vision_calls = 1
    /\ vision_result = NoKeyVerdict

\* C13: a run without a vision credential, with allow_submit set and
\* plan_only clear, that reached the loop, raised no fatal exception and in
\* which the heuristic detector was consulted and never reported success (so
\* ok stayed false) has executed MAX_RETRIES iterations and returns
\* max_retries_reached.
C13_NoKeyExhaustsRetries ==
    (/\ Returned
     /\ ~request.openai_api_key /\ request.allow_submit /\ ~request.plan_only
     /\ trace.fill_done /\ ~trace.raised
     /\ trace.detect_calls >= 1 /\ ~result.ok) =>
        /\ retry_count = MAX_RETRIES
        /\ result.status = "max_retries_reached"

\* C14: a run that raised no fatal exception and whose loop ended at an
\* unconfirmed outcome check (no instructions, or no attempt left) returns
\* not_confirmed; the interpreter replays only a non-empty instruction list
\* with attempts left, and another iteration follows the replay.
C14_UnconfirmedIsNotConfirmed ==
    /\ (/\ Returned /\ ~trace.raised
        /\ retry_count >= 1 /\ trace.decided = retry_count
        /\ ~result.ok) => result.status = "not_confirmed"
    /\ (pc = "interpret") =>
           vision_result.instructions # <<>> /\ retry_count < MAX_RETRIES
    /\ (pc = "loop_head" /\ retry_count >= 1) =>
           trace.last_interp = retry_count /\ LoopGuard(retry_count)

\* the attempt limit and the delay the interface documents per category
DocumentedLimit(error_type) ==
    CASE error_type = "captcha" -> 3
      [] error_type = "network" -> 5
      [] error_type = "form_not_found" -> 2
      [] error_type = "submit" -> 3
      [] OTHER -> 2

DocumentedDelay(error_type) ==
    CASE error_type = "captcha" -> 5
      [] error_type = "network" -> 2
      [] error_type = "form_not_found" -> 3
      [] error_type = "submit" -> 4
      [] OTHER -> 2

\* the last call of should_retry has returned (at least one call was made)
RetryReturned == r_pc = "idle" /\ (r_ret \/ r_refused # -1)

\* C15: should_retry returns true exactly when attempt < max_attempts of the
\* category (captcha 3, network 5, form_not_found 2, submit 3, other 2); it
\* sleeps the category's delay when it returns true and not at all when it
\* returns false; no attempt number at or above one it refused is granted.
C15_ShouldRetry ==
    RetryReturned =>
        /\ r_ret <=> (r_attempt < DocumentedLimit(r_type))
        /\ r_slept = IF r_ret THEN DocumentedDelay(r_type) ELSE 0
        /\ (r_refused # -1 /\ r_attempt >= r_refused) => ~r_ret

\* C15 witness: after a refusal at attempt 5 the network category was
\* refused again at a larger attempt number, without sleeping
C15_Witness ==
    /\ r_pc = "idle"
    /\ r_type = "network"
    /\ r_refused = 5
    /\ r_attempt = 6
    /\ ~r_ret /\ r_slept = 0

\* directive strings that match no pattern of the interpreter
NoPattern == {"unknown", "fill_malformed"}

\* C16: called on a list of directives, execute_vision_instructions never
\* raises, whatever page operation fails; when no directive of the list
\* matches a pattern it has executed nothing and returns false.
C16_InterpreterNeverRaises ==
    i_instructions.kind = "list" =>
        /\ i_pc # "raised"
        /\ (/\ i_pc = "returned"
            /\ \A k \in 1..Len(i_instructions.items) :
                   i_instructions.items[k] \in NoPattern) =>
               executed_count = 0 /\ ~i_ret

\* C16 witness: a call on a directive whose page operation failed, followed
\* by one that matches no pattern, has returned false
C16_Witness ==
    /\ i_pc = "returned"
    /\ i_instructions.kind = "list"
    /\ Len(i_instructions.items) = 2
    /\ i_instructions.items[1] = "fill"
    /\ i_instructions.items[2] = "unknown"
    /\ i_page_failed
    /\ executed_count = 0 /\ ~i_ret

C18_OwnResumeUploaded ==
    \A run \in Runs :
        u_uploaded[run] # "none" => u_uploaded[run] = u_pdf_bytes[run]

\* C19: when remote-browser credentials are configured and all three
\* connection attempts have failed, the run goes on to launch a local browser
\* instead of ending with status error.
C19_FallbackAfterFailedConnects ==
    (request.brightdata /\ attempt = 3) =>
        /\ pc = "launch_local"
        /\ ~trace.raised /\ status # "error"

\* C20: while the CAPTCHA attempts of an iteration are under way or over,
\* whatever a tier returned or raised, no fatal exception has been raised and
\* the status is not error: the run is in the CAPTCHA loop or has gone on to
\* form validation and the submit step.
C20_CaptchaNeverFatal ==
    trace.captcha_calls > 0 =>
        /\ pc \in {"captcha", "wizard", "submit"}
        /\ ~trace.raised /\ status # "error"

\* C20 witness: three attempts of an iteration failed, a tier raised in one
\* of them, and the run is at the submit step
C20_Witness ==
    /\ pc = "submit"
    /\ trace.captcha_calls = 3
    /\ trace.tier_raised
    /\ ~app_state.captcha_solved
    /\ status # "error"

\* an upper bound of the steps a run still has to take: the rest of the
\* current iteration (with 3 CAPTCHA attempts and 3 wizard hops), 16 steps
\* for each of the 5 iterations not yet started, and the steps before and
\* after the loop (with 3 connection attempts and 3 readiness strategies)
StepsLeft ==
    CASE pc = "done" -> 0
      [] pc = "finish" -> 1
      [] pc = "close" -> 2
      [] pc = "final_shot" -> 3
      [] pc = "after_loop" -> 4
      [] pc = "loop_head" -> 5 + (5 - retry_count) * 16
      [] pc = "captcha" -> 5 + (5 - retry_count) * 16 + 11 + (3 - captcha_attempt)
      [] pc = "wizard" -> 5 + (5 - retry_count) * 16 + 7 + (3 - clicked)
      [] pc = "submit" -> 5 + (5 - retry_count) * 16 + 6
      [] pc = "post_shot" -> 5 + (5 - retry_count) * 16 + 5
      [] pc = "detect" -> 5 + (5 - retry_count) * 16 + 4
      [] pc = "vision" -> 5 + (5 - retry_count) * 16 + 3
      [] pc = "decide" -> 5 + (5 - retry_count) * 16 + 2
      [] pc = "interpret" -> 5 + (5 - retry_count) * 16 + 1
      [] pc = "branch" -> 100
      [] pc = "fill" -> 101
      [] pc = "open_form" -> 102
      [] pc = "detect_platform" -> 103
      [] pc = "navigate" -> 104 + (3 - nav_idx)
      [] pc = "launch_local" -> 108
      [] pc = "remote_setup" -> 109
      [] pc = "connect" -> 110 + (3 - attempt)
      [] pc = "start" -> 114

\* C21: every run terminates with a returned result: every step of a run
\* lowers a bound of the steps left that is never negative (5 iterations,
\* 3 CAPTCHA attempts and 3 wizard hops per iteration, 3 connection attempts,
\* 3 readiness strategies), and a run that has not returned can take a step.
C21_Terminates ==
    /\ [][StepsLeft' < StepsLeft /\ StepsLeft' >= 0]_vars
    /\ [](~Returned => ENABLED Next)

\* C21 witness: a run that went through all five iterations and submit steps
\* has returned a full result
C21_Witness ==
    /\ Returned
    /\ retry_count = 5
    /\ trace.submit_steps = 5
    /\ DOMAIN result = FullResultKeys

\* the labels a page author uses for the entry that stands for "nothing chosen"
PlaceholderLabels == {"Select...", "Choose..."}

\* the first option with a non-empty value (blanks count as empty) and a label
\* that is not a placeholder
FirstChoice ==
    LET choices == {n \in 1..Len(a_options) :
                      /\ NonBlank(a_options[n].value)
                      /\ a_options[n].label \notin PlaceholderLabels}
    IN  IF choices = {} THEN 0 ELSE CHOOSE n \in choices : \A m \in choices : n <= m

\* C22: after the autofixer ran on a required select whose value was empty,
\* the select holds the first option with a non-empty value and a label that
\* is not a placeholder, and the scan that follows reports no problem for
\* that control (stated for the pages on which every operation succeeds and
\* the autofixer selected an option).
C22_SelectAutofixed ==
    (/\ a_pc \in {"swept", "checked"}
     /\ a_start = ""
     /\ FirstChoice # 0
     /\ fixed = 1
     /\ \A n \in 1..Len(a_options) : a_options[n].behaviour = "selects")
        => /\ a_value = a_options[FirstChoice].value
           /\ a_pc = "checked" => [kind |-> "invalid", what |-> SelectName] \notin problems

\* C23: within one iteration the CAPTCHA chain is invoked at most 3 times:
\* an invocation is at most the third of its iteration, every invocation
\* before it in the iteration failed (none follows a solved attempt), and a
\* repeated invocation follows a failed attempt that the retry policy of
\* "captcha" (3 attempts) allowed to repeat.
C23_CaptchaAtMostThrice ==
    [][trace'.captcha_calls > trace.captcha_calls
         => /\ pc = "captcha"
            /\ trace'.captcha_calls = trace.captcha_calls + 1
            /\ trace'.captcha_calls <= 3
            /\ trace.captcha_calls = captcha_attempt
            /\ captcha_attempt > 0 => captcha_attempt < 3]_vars

\* C23 witness: the first iteration made three attempts, the third of which
\* solved the challenge, and went on to the wizard
C23_Witness ==
    /\ pc = "wizard"
    /\ retry_count = 1
    /\ trace.captcha_calls = 3
    /\ captcha_attempt = 2
    /\ app_state.captcha_solved

\* the tiers of a call in their documented order: the managed resolution when
\* the remote browser is used, the paid service when it is configured, then
\* the text and the audio fallbacks
TierOrder ==
    (IF t_env.use_brightdata THEN <<"managed">> ELSE <<>>)
    \o (IF t_env.paid # "unavailable" THEN <<"paid">> ELSE <<>>)
    \o <<"text", "audio">>

\* the tier solves the challenge
TierSolves(tier) ==
    \/ tier = "managed" /\ t_env.managed = "solve_success"
    \/ tier = "paid" /\ t_env.paid = "solved"

\* C24: within one CAPTCHA attempt the tiers are tried in the order managed,
\* paid, text, audio: the tiers tried are the tiers of that order up to the
\* first one that solves, so a tier that ends without solving is followed by
\* the next one.
C24_TiersInOrder ==
    t_pc = "returned" =>
        \E n \in 1..Len(TierOrder) :
            /\ tried = SubSeq(TierOrder, 1, n)
            /\ \A k \in 1..(n - 1) : ~TierSolves(TierOrder[k])
            /\ n < Len(TierOrder) => TierSolves(TierOrder[n])

\* C25: captcha_solved is true only if in some CAPTCHA attempt of the run the
\* managed tier reported solve_success or the paid service returned a token
\* that was injected; a call in which only the text and audio fallbacks ran
\* never sets it.
C25_SolvedByManagedOrPaid == app_state.captcha_solved => trace.tier_solved

\* C25 witness: a run without the remote browser set captcha_solved after the
\* paid service solved the challenge
C25_Witness ==
    /\ app_state.captcha_solved
    /\ trace.tier_solved
    /\ ~use_brightdata
    /\ trace.captcha_calls = 1
    /\ pc = "wizard"

\* C26: a failure to capture the post-submit screenshot aborts only its
\* iteration: when the step of the post-submit screenshot does not go on to
\* the outcome detector and attempts remain, the run goes to the head of the
\* loop for the next iteration.
C26_PostShotFailureKeepsLooping ==
    [][(pc = "post_shot" /\ pc' # "detect" /\ retry_count < 5) => pc' = "loop_head"]_vars

\* C27: the interpreter is invoked exactly once after each unconfirmed
\* iteration that is followed by another, before that iteration starts: the
\* loop head is entered again only from the interpreter, every invocation
\* follows the decision of an iteration that was not confirmed and was not
\* the fifth, and in iteration n it has been invoked n - 1 times.
C27_InterpreterOncePerRetry ==
    /\ [][(pc' = "loop_head" /\ pc # "loop_head") => pc \in {"branch", "interpret"}]_vars
    /\ [][trace'.interp_calls # trace.interp_calls
            => /\ pc = "interpret" /\ pc' = "loop_head"
               /\ trace'.interp_calls = trace.interp_calls + 1
               /\ ~vision_result.success /\ ~basic_success
               /\ ~ok /\ status # "submitted"
               /\ trace.decided = retry_count
               /\ retry_count < 5]_vars
    /\ [](pc \in LoopPcs \ {"loop_head"} => trace.interp_calls = retry_count - 1)
    /\ [](pc = "loop_head" => trace.interp_calls = retry_count)

\* C27 witness: the fifth iteration runs after four unconfirmed ones, each
\* followed by one invocation of the interpreter
C27_Witness ==
    /\ pc = "submit"
    /\ retry_count = 5
    /\ trace.interp_calls = 4
    /\ trace.last_interp = 4

\* C28: when every fill strategy failed for a field that has a value, an issue
\* string for that field is appended to encountered_issues, and the run
\* continues to the next field without ending.
C28_FailedFieldIsRecorded ==
    /\ Len(f_issues) >= Cardinality(f_failed)
    /\ f_pc # "raised"

\* C29: once one fill strategy succeeded for a logical field, no further
\* strategy is attempted for it in the filling phase.
C29_NoStrategyAfterSuccess == f_again = {}

\* C30: each name in filled_fields is a field whose fill or upload operation
\* returned success earlier in the run.
C30_FilledFieldsSucceeded == filled_fields \subseteq f_ok

\* C31: the confidence is high only when the page URL matches a platform
\* domain, medium when only a marker of the page content matches, and low or
\* none, with the generic selector set, when nothing matches.
C31_ConfidenceFollowsUrl ==
    p_pc = "returned" =>
        /\ p_ret.confidence = "high" => p_url # {}
        /\ (p_url = {} /\ p_html # {} /\ ~p_raises) => p_ret.confidence = "medium"
        /\ (p_url = {} /\ p_html = {})
              => p_ret.confidence \in {"low", "none"} /\ p_ret.selectors = "SELECTORS"

\* C32: in the radio sweep a radio is checked and counted only in groups
\* where no option was selected, at most once per group name, and a group that
\* already had a selected option keeps its selection.
C32_RadioOnlyInEmptyGroups ==
    /\ \A i \in rd_fixed : \A j \in rd_start : ~SameGroup(radios, i, j)
    /\ \A i \in rd_fixed, j \in rd_fixed : SameGroup(radios, i, j) => i = j
    /\ \A j \in rd_start : j \in rd_checked

\* C33: a failure of an operation on one control does not prevent the fix
\* from being attempted on every other control: when the autofixer returns
\* and every sweep could count its controls, a fix was called on every
\* required control whose own operations all succeed and, for a select, that
\* has an option the fix would take.
C33_FailureDoesNotBlockOthers ==
    (s_pc = Len(Sweeps) + 1 /\ ~s_uncounted) =>
        \A j \in 1..Len(s_page) :
            (s_page[j].behaviour = "fixed" /\ s_page[j].options # "ineligible")
                => j \in s_attempted

\* C34: the job URL is tried with at most 3 readiness strategies, one after
\* the other, and the first success ends the attempts; when the third has
\* failed the run ends with status error and nothing of platform detection,
\* filling, CAPTCHA clearance or submit has happened in it.
C34_NavigationFailureEndsRun ==
    /\ [](nav_idx <= 3)
    /\ [][(pc = "navigate" /\ pc' # "navigate") =>
            \/ pc' = "detect_platform" /\ nav_idx' = nav_idx /\ nav_idx < 3
            \/ pc' = "finish" /\ nav_idx' = 3]_vars
    /\ [](nav_idx = 3 =>
            /\ pc \in {"finish", "done"}
            /\ status = "error" /\ ~ok
            /\ pc = "done" => result.status = "error"
            /\ app_state.current_step = "initial"
            /\ app_state.platform_detected = "unknown"
            /\ ~trace.fill_done
            /\ ~trace.captcha_tried
            /\ trace.captcha_calls = 0
            /\ trace.submit_steps = 0
            /\ ~trace.submit_clicked)

\* the three strategies failed and the run returned its result
C34_Witness ==
    /\ nav_idx = 3
    /\ pc = "done"
    /\ trace.navigated
    /\ result.status = "error"

\* the steps of a run in their documented order
StepOrder == <<"initial", "page_loaded", "form_opened", "filling_form", "submitted", "done">>

StepRank(step) == CHOOSE i \in 1..Len(StepOrder) : StepOrder[i] = step

\* C35: current_step always holds one of initial, page_loaded, form_opened,
\* filling_form, submitted, done, and no step of a run moves it to an
\* earlier one of that order.
C35_StepsOnlyForward ==
    /\ [](\E i \in 1..Len(StepOrder) : app_state.current_step = StepOrder[i])
    /\ [][StepRank(app_state'.current_step) >= StepRank(app_state.current_step)]_vars

\* the submit step has set "submitted" in two iterations of the loop
C35_Witness ==
    /\ app_state.current_step = "submitted"
    /\ trace.submit_steps >= 2
    /\ pc = "done"

\* the responses the claim lists: an exception during the call, a status other
\* than 200, no choices, or a text that holds no JSON object at all
FailedResponse(response) ==
    \/ response.raises
    \/ response.status_code # 200
    \/ response.choices # "present"
    \/ \A i \in 1..Len(response.content) : response.content[i] \notin {"T", "F"}

\* C36: analyze_screenshot_with_vision never raises, whatever the vision
\* model answers, and for a non-200 status, missing choices, a text that is
\* not JSON even after code-fence removal and brace extraction, or an
\* exception during the call, it returns success false with an empty
\* instruction list; its verdict is always one the run's vision step accepts.
C36_VisionNeverRaises ==
    v_pc = "returned" =>
        /\ ~v_raised
        /\ v_ret \in analyze_screenshot_with_vision(v_key)
        /\ FailedResponse(v_response) =>
              v_ret.success = FALSE /\ v_ret.instructions = <<>>

\* a call with a credential got a 200 response whose text, past a code
\* fence, is braces without JSON, and returned the failure verdict
C36_Witness ==
    /\ v_pc = "returned"
    /\ v_key
    /\ ~v_response.raises /\ v_response.status_code = 200 /\ v_response.choices = "present"
    /\ v_response.content = <<"fence_json", "B", "fence">>
    /\ v_ret = FailureVerdict

\* C37: while one run waits for the paid solving service to return a token,
\* the other runs can still take steps: every other run that has not
\* returned has a step it can take.
C37_SolverWaitDoesNotBlock ==
    \A r \in DOMAIN e_pc, q \in DOMAIN e_pc :
        (e_pc[r] = "in_solver" /\ q # r /\ e_pc[q] \in SuspendedAt) =>
            ENABLED CaptchaRunStep(q)

\* C38: a returned result has ok true if and only if its status is
\* submitted; a result with status planned_only, awaiting_consent,
\* not_confirmed, max_retries_reached, missing_fields or error has ok false.
C38_OkIffSubmitted ==
    Returned =>
        /\ result.ok <=> result.status = "submitted"
        /\ result.status \in {"planned_only", "awaiting_consent", "not_confirmed",
                              "max_retries_reached", "missing_fields", "error"} =>
              ~result.ok

\* a run returned ok with status submitted after an earlier iteration had
\* not confirmed the outcome
C38_Witness ==
    /\ Returned
    /\ result.ok
    /\ result.status = "submitted"
    /\ trace.interp_calls >= 1

\* C39: a run returns status submitted only if the submit step performed a
\* submit click (a necessary part of the claim: the click of the confirming
\* iteration is a click of the run).
C39_SubmittedOnlyAfterClick ==
    (Returned /\ result.ok /\ result.status = "submitted") => trace.submit_clicked

\* C40: once an iteration has set ok = true and status submitted, no later
\* step of the run changes them.
C40_SubmittedIsFinal ==
    [][(ok /\ status = "submitted") => (ok' /\ status' = "submitted")]_vars

====
